---- MODULE Spec2Model ----
(***************************************************************************)
(* A model of ProcessUtils (web/src/server/pty/process-utils.ts): WSL2     *)
(* detection with its memoized flag, process liveness checks, process      *)
(* termination with the polling wait, and command/shell resolution.        *)
(*                                                                         *)
(* Strings the code inspects character by character (toLowerCase,          *)
(* includes, endsWith, join, trim) are sequences of one-character strings. *)
(***************************************************************************)
EXTENDS Integers, Sequences, FiniteSets, TLC

VARIABLES
    platform,    \* process.platform, fixed for the life of the process
    procVersion, \* /proc/version: [state, text]
    env,         \* process.env: variable name -> value or Undefined
    procs,       \* the operating system's process table: pid -> "none", "own", "foreign"
    now,         \* Date.now(), in milliseconds
    _isWSL2,     \* ProcessUtils._isWSL2: "null", "true" or "false"
    wait,        \* the waitForProcessExit call in progress, if any
    last,        \* the most recent call: operation, argument, outcome, probes made, log lines
    pidFile,     \* the launcher's PID file: [state, text]
    launch       \* the launcher process (wsl2-launcher.ts): where it is and what it did

vars == <<platform, procVersion, env, procs, now, _isWSL2, wait, last, pidFile, launch>>

----------------------------------------------------------------------------
(* Strings *)

UpperCase == <<"A", "B", "C", "D", "E", "F", "G", "H", "I", "J", "K", "L", "M",
               "N", "O", "P", "Q", "R", "S", "T", "U", "V", "W", "X", "Y", "Z">>
LowerCase == <<"a", "b", "c", "d", "e", "f", "g", "h", "i", "j", "k", "l", "m",
               "n", "o", "p", "q", "r", "s", "t", "u", "v", "w", "x", "y", "z">>

\* String.prototype.toLowerCase, one character
toLowerChar(c) ==
    IF \E i \in 1..Len(UpperCase) : UpperCase[i] = c
    THEN LowerCase[CHOOSE i \in 1..Len(UpperCase) : UpperCase[i] = c]
    ELSE c

\* String.prototype.toLowerCase
toLowerCase(s) == [i \in 1..Len(s) |-> toLowerChar(s[i])]

\* String.prototype.includes
includes(s, needle) ==
    \E i \in 0..(Len(s) - Len(needle)) :
        \A j \in 1..Len(needle) : s[i + j] = needle[j]

\* String.prototype.endsWith
endsWith(s, suffix) ==
    /\ Len(suffix) <= Len(s)
    /\ \A j \in 1..Len(suffix) : s[Len(s) - Len(suffix) + j] = suffix[j]

WhiteSpace == {" ", "\n", "\t", "\r"}

\* The least and the greatest element of a non-empty set of integers
Min(S) == CHOOSE x \in S : \A y \in S : x <= y
Max(S) == CHOOSE x \in S : \A y \in S : x >= y

\* String.prototype.trim
trim(s) ==
    LET inked == {i \in 1..Len(s) : s[i] \notin WhiteSpace}
    IN  IF inked = {} THEN <<>> ELSE SubSeq(s, Min(inked), Max(inked))

\* Array.prototype.join
join(words, sep) ==
    LET joined[i \in 0..Len(words)] ==
            IF i = 0 THEN <<>>
            ELSE IF i = 1 THEN words[1]
            ELSE joined[i - 1] \o sep \o words[i]
    IN  joined[Len(words)]

\* The elements of a sequence
Range(seq) == {seq[i] : i \in 1..Len(seq)}

\* The value of a variable that is not in process.env
Undefined == <<"undefined">>

\* JavaScript truthiness of a string-or-undefined value
truthy(v) == v # Undefined /\ v # <<>>

----------------------------------------------------------------------------
(* The environment of the process *)

Platforms == {"linux", "darwin", "win32", "freebsd"}

\* /proc/version texts: plain Linux, WSL2, WSL1, and kernels that carry
\* only one of the strings the detection looks for
PlainLinuxText == <<"l", "i", "n", "u", "x", " ", "6", ".", "1", " ", "g", "c", "c">>
WSL2Text == <<"5", ".", "1", "5", " ", "M", "i", "c", "r", "o", "s", "o", "f", "t", "-", "W", "S", "L", "2">>
WSL1Text == <<"4", ".", "4", " ", "M", "i", "c", "r", "o", "s", "o", "f", "t">>
CustomWSL2Text == <<"5", ".", "1", "5", " ", "c", "u", "s", "t", "o", "m", "-", "W", "S", "L", "2">>
WslOnlyText == <<"5", ".", "1", "0", " ", "w", "s", "l", "-", "b", "u", "i", "l", "d">>

KernelTexts == {PlainLinuxText, WSL2Text, WSL1Text, CustomWSL2Text, WslOnlyText}

\* absent: existsSync is false; unreadable: the file exists and readFileSync throws
ProcVersionStates ==
    {[state |-> "absent", text |-> <<>>], [state |-> "unreadable", text |-> <<>>]}
        \cup {[state |-> "readable", text |-> t] : t \in KernelTexts}

wslEnvVars == <<"WSL_DISTRO_NAME", "WSL_INTEROP", "WSLENV">>
WslEnvNames == {wslEnvVars[i] : i \in 1..Len(wslEnvVars)}

EnvNames == WslEnvNames \cup {"SHELL", "SystemRoot", "ProgramFiles", "ComSpec"}

\* unset, set to the empty string, set to a non-empty string
WslEnvValues == {Undefined, <<>>, <<"1">>}

NoEnv == [n \in EnvNames |-> Undefined]

----------------------------------------------------------------------------
(* ProcessUtils.isWSL2 and getPlatformType *)

microsoft == <<"m", "i", "c", "r", "o", "s", "o", "f", "t">>
wsl == <<"w", "s", "l">>
wsl2 == <<"w", "s", "l", "2">>

\* The outcome of one call of a ProcessUtils operation: the value returned,
\* the memoized flag after the call, the probes made (in order) and the lines
\* logged.
Outcome(ret, memo, probes, logs) ==
    [ret |-> ret, memo |-> memo, probes |-> probes, logs |-> logs, threw |-> FALSE]

\* Mutant: any vendor marker counts as WSL2, the version marker is not looked at
isWSL2FromVersion_VendorOnly(versionContent) ==
    IF includes(versionContent, microsoft) \/ includes(versionContent, wsl)
    THEN "wsl2" ELSE "none"

\* isWSL2, lines 41-60: /proc/version exists and was read
isWSL2FromVersion(versionContent) ==
    LET isWSL == includes(versionContent, microsoft) \/ includes(versionContent, wsl)
        isWSL2 == includes(versionContent, wsl2)
    IN  IF isWSL /\ isWSL2 THEN "wsl2"
        ELSE IF isWSL /\ ~isWSL2 THEN "wsl1"
        ELSE "none"

\* Mutant: the WSL variables alone are taken as proof of WSL2
isWSL2FromEnv_Trusting(e, probes) ==
    IF \E i \in 1..Len(wslEnvVars) : truthy(e[wslEnvVars[i]])
    THEN Outcome(TRUE, "true", Append(probes, "env"), {"wsl-env-detected"})
    ELSE Outcome(FALSE, "false", Append(probes, "env"), {})

\* isWSL2, lines 62-77: the environment-variable fallback
isWSL2FromEnv(e, probes) ==
    LET hasWSLEnv == \E i \in 1..Len(wslEnvVars) : truthy(e[wslEnvVars[i]])
    IN  IF hasWSLEnv
        THEN Outcome(FALSE, "false", Append(probes, "env"), {"wsl-env-detected", "cannot-confirm-wsl2"})
        ELSE Outcome(FALSE, "false", Append(probes, "env"), {})

\* Mutant: without /proc/version the environment is not looked at
detectWSL2_AbsentIsFinal(plat, pv, e) ==
    IF plat # "linux" THEN Outcome(FALSE, "false", <<>>, {})
    ELSE IF pv.state = "absent" THEN Outcome(FALSE, "false", <<"existsSync">>, {})
    ELSE IF pv.state = "unreadable"
         THEN Outcome(FALSE, "false", <<"existsSync", "readFileSync">>, {"detect-failed"})
    ELSE IF isWSL2FromVersion(toLowerCase(pv.text)) = "wsl2"
         THEN Outcome(TRUE, "true", <<"existsSync", "readFileSync">>, {"wsl2-detected"})
    ELSE IF isWSL2FromVersion(toLowerCase(pv.text)) = "wsl1"
         THEN Outcome(FALSE, "false", <<"existsSync", "readFileSync">>,
                      {"wsl1-unsupported", "wsl1-upgrade-hint"})
    ELSE isWSL2FromEnv(e, <<"existsSync", "readFileSync">>)

\* Mutant: the exception of readFileSync is not caught
detectWSL2_Uncaught(plat, pv, e) ==
    IF plat # "linux" THEN Outcome(FALSE, "false", <<>>, {})
    ELSE IF pv.state = "absent" THEN isWSL2FromEnv(e, <<"existsSync">>)
    ELSE IF pv.state = "unreadable"
         THEN [Outcome(FALSE, "null", <<"existsSync", "readFileSync">>, {})
                  EXCEPT !.threw = TRUE]
    ELSE isWSL2FromEnv(e, <<"existsSync", "readFileSync">>)

\* isWSL2, lines 34-82: the detection proper, run when nothing is memoized
detectWSL2(plat, pv, e) ==
    IF plat # "linux" THEN Outcome(FALSE, "false", <<>>, {})
    ELSE IF pv.state = "absent" THEN isWSL2FromEnv(e, <<"existsSync">>)
    ELSE IF pv.state = "unreadable"
         THEN Outcome(FALSE, "false", <<"existsSync", "readFileSync">>, {"detect-failed"})
    ELSE LET kind == isWSL2FromVersion(toLowerCase(pv.text))
             read == <<"existsSync", "readFileSync">>
         IN  IF kind = "wsl2" THEN Outcome(TRUE, "true", read, {"wsl2-detected"})
             ELSE IF kind = "wsl1"
                  THEN Outcome(FALSE, "false", read, {"wsl1-unsupported", "wsl1-upgrade-hint"})
             ELSE isWSL2FromEnv(e, read)

\* Mutant: the memoized flag is not consulted, every call detects again
isWSL2_NoMemo(memo, plat, pv, e) == detectWSL2(plat, pv, e)

\* ProcessUtils.isWSL2
isWSL2(memo, plat, pv, e) ==
    IF memo # "null" THEN Outcome(memo = "true", memo, <<>>, {})
    ELSE detectWSL2(plat, pv, e)

\* getPlatformType, lines 90-93: the type, given the outcome `d` of isWSL2()
platformTypeOf(plat, d) ==
    Outcome(IF d.ret THEN "wsl2" ELSE plat, d.memo, <<"isWSL2">> \o d.probes, d.logs)

\* ProcessUtils.getPlatformType
getPlatformType(memo, plat, pv, e) == platformTypeOf(plat, isWSL2(memo, plat, pv, e))

----------------------------------------------------------------------------
(* Numbers given as pids: an integer n, n + 0.5, or NaN *)

Whole(n) == [kind |-> "int", n |-> n]
Half(n) == [kind |-> "half", n |-> n]
NaN == [kind |-> "nan", n |-> 0]

\* !pid
isFalsy(x) == x.kind = "nan" \/ (x.kind = "int" /\ x.n = 0)

\* pid <= 0
isLeqZero(x) == x.kind # "nan" /\ (x.n < 0 \/ (x.kind = "int" /\ x.n = 0))

Digits == <<"0", "1", "2", "3", "4", "5", "6", "7", "8", "9">>

\* The decimal digits of a natural number
naturalToString(n) ==
    LET digits[k \in 0..n] ==
            IF k < 10 THEN <<Digits[k + 1]>>
            ELSE digits[k \div 10] \o <<Digits[(k % 10) + 1]>>
    IN  digits[n]

\* Number.prototype.toString and `${pid}`
numberToString(x) ==
    IF x.kind = "nan" THEN <<"N", "a", "N">>
    ELSE IF x.kind = "int"
         THEN IF x.n < 0 THEN <<"-">> \o naturalToString(-x.n) ELSE naturalToString(x.n)
    ELSE IF x.n < 0 THEN <<"-">> \o naturalToString(-x.n - 1) \o <<".", "5">>
    ELSE naturalToString(x.n) \o <<".", "5">>

----------------------------------------------------------------------------
(* The operating system: processes, signals, tasklist and taskkill *)

\* The pids a process can have in the model
Pids == {12, 212}

\* none: no such process; own: a process of this user; foreign: a process
\* this user may not signal
ProcStates == {"none", "own", "foreign"}

\* The process `pid` names exists
exists(tbl, pid) == pid.kind = "int" /\ pid.n \in Pids /\ tbl[pid.n] # "none"

KnownSignals == {"0", "SIGTERM", "SIGKILL"}
Signals == KnownSignals \cup {"999"}

\* process.kill(pid, sig): "ok", or the code of the error it throws
processKill(tbl, pid, sig) ==
    IF pid.kind # "int" THEN "ERR_INVALID_ARG_TYPE"
    ELSE IF sig \notin KnownSignals THEN "ERR_UNKNOWN_SIGNAL"
    ELSE IF pid.n <= 0 THEN "ok"
    ELSE IF ~exists(tbl, pid) THEN "ESRCH"
    ELSE IF tbl[pid.n] = "foreign" THEN "EPERM"
    ELSE "ok"

\* The probe a signal delivery attempt is recorded as
killProbe(sig) ==
    CASE sig = "0" -> "kill 0"
      [] sig = "SIGTERM" -> "kill SIGTERM"
      [] sig = "SIGKILL" -> "kill SIGKILL"
      [] OTHER -> "kill 999"

quote == <<"\"">>
NoTasksText == <<"I", "N", "F", "O", ":", " ", "N", "o", " ", "t", "a", "s", "k", "s", ".">>

\* The CSV row tasklist prints for a process: image, pid, session name,
\* session number, memory
tasklistRow(pid) ==
    <<"\"", "a", ".", "e", "x", "e", "\"", ",", "\"">> \o numberToString(pid)
        \o <<"\"", ",", "\"", "C", "o", "n", "s", "o", "l", "e", "\"", ",", "\"", "1",
             "\"", ",", "\"", "9", ",", "3", "4", "4", " ", "K", "\"">>

\* The rows of the processes with a pid in `ps`, by ascending pid
RECURSIVE tasklistRowsOf(_)
tasklistRowsOf(ps) ==
    IF ps = {} THEN <<>>
    ELSE tasklistRow([kind |-> "int", n |-> Min(ps)]) \o <<"\n">>
             \o tasklistRowsOf(ps \ {Min(ps)})

\* The rows of all the processes there are
tasklistRows(tbl) == tasklistRowsOf({p \in Pids : tbl[p] # "none"})

\* What spawnSync('tasklist', ['/FI', `PID eq ${pid}`, ...]) can come back
\* with: a timeout (status null), a failure, no output, the listing narrowed
\* to the pid, or a listing of every process (a tasklist that does not
\* narrow its listing)
TasklistResults(tbl, pid) ==
    {[status |-> "null", stdout |-> <<>>],
     [status |-> "1", stdout |-> <<>>],
     [status |-> "0", stdout |-> <<>>],
     [status |-> "0", stdout |-> IF exists(tbl, pid) THEN tasklistRow(pid) ELSE NoTasksText],
     [status |-> "0", stdout |-> IF tasklistRows(tbl) # <<>> THEN tasklistRows(tbl)
                                 ELSE NoTasksText]}

\* What spawnSync('taskkill', ['/PID', pid, '/F']) can come back with: the
\* exit status, null on a timeout
TaskkillResults(tbl, pid) ==
    IF exists(tbl, pid) THEN {"0", "1", "null"} ELSE {"128", "null"}

\* The probes that do not depend on the platform take one fixed value off Windows
TasklistChoices(plat, tbl, pid) ==
    IF plat = "win32" THEN TasklistResults(tbl, pid)
    ELSE {[status |-> "null", stdout |-> <<>>]}

TaskkillChoices(plat, tbl, pid) ==
    IF plat = "win32" THEN TaskkillResults(tbl, pid) ELSE {"null"}

----------------------------------------------------------------------------
(* ProcessUtils.isProcessRunning, killProcess *)

\* Mutant: the pid is looked for without its quotes
isProcessRunningWindows_Unquoted(pid, result) ==
    IF result.status = "0" /\ result.stdout # <<>>
    THEN includes(result.stdout, numberToString(pid))
    ELSE FALSE

\* ProcessUtils.isProcessRunningWindows
isProcessRunningWindows(pid, result) ==
    IF result.status = "0" /\ result.stdout # <<>>
    THEN includes(result.stdout, quote \o numberToString(pid) \o quote)
    ELSE FALSE

\* Mutant: a permission error is taken to mean the process is gone
isProcessRunningUnix_EpermDead(tbl, pid) == processKill(tbl, pid, "0") = "ok"

\* ProcessUtils.isProcessRunningUnix
isProcessRunningUnix(tbl, pid) ==
    LET code == processKill(tbl, pid, "0")
    IN  IF code = "ok" THEN TRUE
        ELSE IF code = "EPERM" THEN TRUE
        ELSE FALSE

\* isProcessRunning, lines 106-112: the dispatch on the outcome `t` of
\* getPlatformType()
isProcessRunningAs(t, tbl, pid, tasklist) ==
    IF t.ret = "win32"
    THEN Outcome(isProcessRunningWindows(pid, tasklist), t.memo,
                 t.probes \o <<"tasklist">>, t.logs)
    ELSE Outcome(isProcessRunningUnix(tbl, pid), t.memo,
                 t.probes \o <<killProbe("0")>>, t.logs)

\* isProcessRunning, lines 104-116: the pid is positive
isProcessRunningOn(memo, plat, pv, e, tbl, pid, tasklist) ==
    isProcessRunningAs(getPlatformType(memo, plat, pv, e), tbl, pid, tasklist)

\* Mutant: the platform is detected before the pid is looked at
isProcessRunning_DetectFirst(memo, plat, pv, e, tbl, pid, tasklist) ==
    IF isFalsy(pid) \/ isLeqZero(pid)
    THEN [getPlatformType(memo, plat, pv, e) EXCEPT !.ret = FALSE]
    ELSE isProcessRunningOn(memo, plat, pv, e, tbl, pid, tasklist)

\* ProcessUtils.isProcessRunning
isProcessRunning(memo, plat, pv, e, tbl, pid, tasklist) ==
    IF isFalsy(pid) \/ isLeqZero(pid) THEN Outcome(FALSE, memo, <<>>, {})
    ELSE isProcessRunningOn(memo, plat, pv, e, tbl, pid, tasklist)

\* Mutant: killProcess without the guard on the pid
killProcess_Unguarded(memo, plat, tbl, pid, signal, taskkill) ==
    IF plat = "win32"
    THEN IF taskkill = "0"
         THEN Outcome(TRUE, memo, <<"taskkill">>, {"killed"})
         ELSE Outcome(FALSE, memo, <<"taskkill">>, {})
    ELSE IF processKill(tbl, pid, signal) = "ok"
         THEN Outcome(TRUE, memo, <<killProbe(signal)>>, {"signal-sent"})
         ELSE Outcome(FALSE, memo, <<killProbe(signal)>>, {"kill-error"})

\* ProcessUtils.killProcess; killProcess does not detect the platform type,
\* so the memoized flag is as it was
killProcess(memo, plat, tbl, pid, signal, taskkill) ==
    IF isFalsy(pid) \/ isLeqZero(pid) THEN Outcome(FALSE, memo, <<>>, {})
    ELSE IF plat = "win32"
         THEN IF taskkill = "0"
              THEN Outcome(TRUE, memo, <<"taskkill">>, {"killed"})
              ELSE Outcome(FALSE, memo, <<"taskkill">>, {})
    ELSE IF processKill(tbl, pid, signal) = "ok"
         THEN Outcome(TRUE, memo, <<killProbe(signal)>>, {"signal-sent"})
         ELSE Outcome(FALSE, memo, <<killProbe(signal)>>, {"kill-error"})

\* waitForProcessExit, line 227
checkInterval == 100

----------------------------------------------------------------------------
(* ProcessUtils.getUserShell, isInteractiveShellCommand, resolveCommand *)

bash == <<"b", "a", "s", "h">>
zsh == <<"z", "s", "h">>
sh == <<"s", "h">>
fish == <<"f", "i", "s", "h">>
dash == <<"d", "a", "s", "h">>
ksh == <<"k", "s", "h">>
tcsh == <<"t", "c", "s", "h">>
csh == <<"c", "s", "h">>
pwsh == <<"p", "w", "s", "h">>
powershell == <<"p", "o", "w", "e", "r", "s", "h", "e", "l", "l">>
cmdExe == <<"c", "m", "d", ".", "e", "x", "e">>

\* isInteractiveShellCommand, line 249
shells == <<bash, zsh, sh, fish, dash, ksh, tcsh, csh>>

\* isInteractiveShellCommand, line 255
interactiveFlags == {<<"-", "i">>, <<"-", "-", "i", "n", "t", "e", "r", "a", "c", "t", "i", "v", "e">>, <<"-", "l">>, <<"-", "-", "l", "o", "g", "i", "n">>}

\* Mutant: a shell is interactive only when a flag says so
isInteractiveShellCommand_NeedsFlag(cmdName, args) ==
    /\ \E i \in 1..Len(shells) :
           cmdName = shells[i] \/ endsWith(cmdName, <<"/">> \o shells[i])
    /\ \E i \in 1..Len(args) : args[i] \in interactiveFlags

\* Mutant: a shell name is recognised at the end of any word, with or
\* without a path separator before it
isInteractiveShellCommand_AnySuffix(cmdName, args) ==
    /\ \E i \in 1..Len(shells) : endsWith(cmdName, shells[i])
    /\ (args = <<>> \/ \E i \in 1..Len(args) : args[i] \in interactiveFlags)

\* ProcessUtils.isInteractiveShellCommand
isInteractiveShellCommand(cmdName, args) ==
    LET isShell == \E i \in 1..Len(shells) :
                       cmdName = shells[i] \/ endsWith(cmdName, <<"/">> \o shells[i])
    IN  IF ~isShell THEN FALSE
        ELSE IF Len(args) = 0 THEN TRUE
        ELSE \E i \in 1..Len(args) : args[i] \in interactiveFlags

\* path.join on Windows, for segments that need no normalising
pathJoin(segments) == join(segments, <<"\\">>)

\* process.env.X || fallback
envOr(e, name, fallback) == IF truthy(e[name]) THEN e[name] ELSE fallback

\* getUserShell, lines 408-414
powershellPath(e) ==
    pathJoin(<<envOr(e, "SystemRoot", <<"C", ":", "\\", "W", "i", "n", "d", "o", "w", "s">>), <<"S", "y", "s", "t", "e", "m", "3", "2">>, <<"W", "i", "n", "d", "o", "w", "s", "P", "o", "w", "e", "r", "S", "h", "e", "l", "l">>,
               <<"v", "1", ".", "0">>, <<"p", "o", "w", "e", "r", "s", "h", "e", "l", "l", ".", "e", "x", "e">>>>)

\* getUserShell, lines 429-433
gitBashPaths(e) ==
    <<<<"C", ":", "\\", "P", "r", "o", "g", "r", "a", "m", " ", "F", "i", "l", "e", "s", "\\", "G", "i", "t", "\\", "b", "i", "n", "\\", "b", "a", "s", "h", ".", "e", "x", "e">>,
      <<"C", ":", "\\", "P", "r", "o", "g", "r", "a", "m", " ", "F", "i", "l", "e", "s", " ", "(", "x", "8", "6", ")", "\\", "G", "i", "t", "\\", "b", "i", "n", "\\", "b", "a", "s", "h", ".", "e", "x", "e">>,
      pathJoin(<<envOr(e, "ProgramFiles", <<"C", ":", "\\", "P", "r", "o", "g", "r", "a", "m", " ", "F", "i", "l", "e", "s">>), <<"G", "i", "t">>, <<"b", "i", "n">>, <<"b", "a", "s", "h", ".", "e", "x", "e">>>>)>>

binBash == <<"/", "b", "i", "n", "/", "b", "a", "s", "h">>
binZsh == <<"/", "b", "i", "n", "/", "z", "s", "h">>
usrBinBash == <<"/", "u", "s", "r", "/", "b", "i", "n", "/", "b", "a", "s", "h">>
usrBinZsh == <<"/", "u", "s", "r", "/", "b", "i", "n", "/", "z", "s", "h">>
binSh == <<"/", "b", "i", "n", "/", "s", "h">>

\* getUserShell, lines 465-468
\* Mutant: the same order of preference on every platform
commonShells_ZshFirst(platformType) ==
    <<binZsh, binBash, usrBinZsh, usrBinBash, binSh>>

commonShells(platformType) ==
    IF platformType = "wsl2"
    THEN <<binBash, binZsh, usrBinBash, usrBinZsh, binSh>>
    ELSE <<binZsh, binBash, usrBinZsh, usrBinBash, binSh>>

\* What the shell probes of one call find. pwsh, powershell: the exit status
\* of the trial command ("null": not there, or timed out); gitBash: the
\* indexes of gitBashPaths at which bash.exe runs; userInfo: the shell field
\* of os.userInfo(), Undefined when there is none, <<"throws">> when
\* os.userInfo() throws; executable: the paths `test -x` exits 0 for.
Throws == <<"throws">>
Statuses == {"0", "1", "null"}

\* The first index i >= from of `list` with list[i] in `good`, 0 if none
firstWhere(list, good, from) ==
    LET hits == {i \in from..Len(list) : list[i] \in good}
    IN  IF hits = {} THEN 0 ELSE Min(hits)

\* n probes of the same kind
repeat(probe, n) == [i \in 1..n |-> probe]

\* getUserShell, lines 428-450: the Git Bash locations `paths`, of which
\* `hit` is the first that runs (0: none), then cmd.exe
gitBashOrCmd(e, paths, hit) ==
    IF hit # 0
    THEN [shell |-> paths[hit], probes |-> repeat("git-bash", hit)]
    ELSE [shell |-> envOr(e, "ComSpec", cmdExe), probes |-> repeat("git-bash", Len(paths))]

\* getUserShell, lines 390-450: Windows
getUserShellWindows(e, w) ==
    IF w.pwsh = "0" THEN [shell |-> pwsh, probes |-> <<"pwsh">>]
    ELSE IF w.powershell = "0"
         THEN [shell |-> powershellPath(e), probes |-> <<"pwsh", "powershell">>]
    ELSE [shell |-> gitBashOrCmd(e, gitBashPaths(e),
                                 firstWhere(gitBashPaths(e),
                                            {gitBashPaths(e)[i] : i \in w.gitBash}, 1)).shell,
          probes |-> <<"pwsh", "powershell">>
                       \o gitBashOrCmd(e, gitBashPaths(e),
                                       firstWhere(gitBashPaths(e),
                                                  {gitBashPaths(e)[i] : i \in w.gitBash}, 1)).probes]

\* getUserShell, lines 463-486: the shell paths `list`, of which `hit` is
\* the first that is executable (0: none), then /bin/sh
firstExecutable(list, hit) ==
    IF hit # 0
    THEN [shell |-> list[hit], probes |-> repeat("test -x", hit)]
    ELSE [shell |-> binSh, probes |-> repeat("test -x", Len(list))]

\* getUserShell, lines 451-486: Unix-like systems
getUserShellUnix(platformType, w) ==
    IF w.userInfo # Throws /\ truthy(w.userInfo)
    THEN [shell |-> w.userInfo, probes |-> <<"userInfo">>]
    ELSE [shell |-> firstExecutable(commonShells(platformType),
                                    firstWhere(commonShells(platformType), w.executable, 1)).shell,
          probes |-> <<"userInfo">>
                       \o firstExecutable(commonShells(platformType),
                                          firstWhere(commonShells(platformType),
                                                     w.executable, 1)).probes]

\* getUserShell, lines 387-490: SHELL is not set; `t` is the outcome of
\* getPlatformType()
getUserShellOn(t, e, w) ==
    IF t.ret = "win32"
    THEN Outcome(getUserShellWindows(e, w).shell, t.memo,
                 t.probes \o getUserShellWindows(e, w).probes, t.logs)
    ELSE IF t.ret \in {"wsl2", "linux", "darwin"}
         THEN Outcome(getUserShellUnix(t.ret, w).shell, t.memo,
                      t.probes \o getUserShellUnix(t.ret, w).probes, t.logs)
    ELSE Outcome(binSh, t.memo, t.probes, t.logs)

\* Mutant: the platform type is asked for before SHELL is looked at
getUserShell_DetectFirst(memo, plat, pv, e, w) ==
    IF truthy(e["SHELL"])
    THEN [getPlatformType(memo, plat, pv, e) EXCEPT !.ret = e["SHELL"]]
    ELSE getUserShellOn(getPlatformType(memo, plat, pv, e), e, w)

\* ProcessUtils.getUserShell
getUserShell(memo, plat, pv, e, w) ==
    IF truthy(e["SHELL"]) THEN Outcome(e["SHELL"], memo, <<>>, {})
    ELSE getUserShellOn(getPlatformType(memo, plat, pv, e), e, w)

\* No plan: resolveCommand was not called, or threw
NoPlan == [command |-> <<>>, args |-> <<>>, useShell |-> FALSE]

\* The plan resolveCommand returns, as an outcome
Plan(command, args, useShell, memo, probes, logs) ==
    [ret |-> [command |-> command, args |-> args, useShell |-> useShell],
     memo |-> memo, probes |-> probes, logs |-> logs, threw |-> FALSE]

\* Mutant: PowerShell is given the arguments of cmd.exe
shellPlan_PowerShellAsCmd(command, us, t, isCommand, joined, probes) ==
    IF t.ret = "win32"
    THEN IF includes(us.ret, bash)
         THEN IF isCommand
              THEN Plan(us.ret, <<<<"-", "c">>, joined>>, TRUE, t.memo,
                        probes \o us.probes \o t.probes, us.logs \cup t.logs)
              ELSE Plan(us.ret, <<<<"-", "i">>, <<"-", "c">>, joined>>, TRUE, t.memo,
                        probes \o us.probes \o t.probes, us.logs \cup t.logs)
         ELSE IF includes(us.ret, pwsh) \/ includes(us.ret, powershell)
              THEN Plan(us.ret, <<<<"/", "C">>, joined>>,
                        TRUE, t.memo, probes \o us.probes \o t.probes, us.logs \cup t.logs)
         ELSE Plan(us.ret, <<<<"/", "C">>, joined>>, TRUE, t.memo,
                   probes \o us.probes \o t.probes, us.logs \cup t.logs)
    ELSE IF t.ret \in {"wsl2", "linux", "darwin"}
         THEN IF isCommand
              THEN Plan(us.ret, <<<<"-", "c">>, joined>>, TRUE, t.memo,
                        probes \o us.probes \o t.probes, us.logs \cup t.logs)
              ELSE Plan(us.ret, <<<<"-", "i">>, <<"-", "c">>, joined>>, TRUE, t.memo,
                        probes \o us.probes \o t.probes, us.logs \cup t.logs)
    ELSE Plan(command[1], Tail(command), FALSE, t.memo,
              probes \o us.probes \o t.probes, us.logs \cup t.logs)

\* resolveCommand, lines 306-374: the shape of the shell invocation, given
\* the outcome `us` of getUserShell(), the outcome `t` of getPlatformType(),
\* isCommand, and the joined command
shellPlan(command, us, t, isCommand, joined, probes) ==
    IF t.ret = "win32"
    THEN IF includes(us.ret, bash)
         THEN IF isCommand
              THEN Plan(us.ret, <<<<"-", "c">>, joined>>, TRUE, t.memo,
                        probes \o us.probes \o t.probes, us.logs \cup t.logs)
              ELSE Plan(us.ret, <<<<"-", "i">>, <<"-", "c">>, joined>>, TRUE, t.memo,
                        probes \o us.probes \o t.probes, us.logs \cup t.logs)
         ELSE IF includes(us.ret, pwsh) \/ includes(us.ret, powershell)
              THEN Plan(us.ret, <<<<"-", "N", "o", "L", "o", "g", "o">>,
                                  <<"-", "C", "o", "m", "m", "a", "n", "d">>, joined>>,
                        TRUE, t.memo, probes \o us.probes \o t.probes, us.logs \cup t.logs)
         ELSE Plan(us.ret, <<<<"/", "C">>, joined>>, TRUE, t.memo,
                   probes \o us.probes \o t.probes, us.logs \cup t.logs)
    ELSE IF t.ret \in {"wsl2", "linux", "darwin"}
         THEN IF isCommand
              THEN Plan(us.ret, <<<<"-", "c">>, joined>>, TRUE, t.memo,
                        probes \o us.probes \o t.probes, us.logs \cup t.logs)
              ELSE Plan(us.ret, <<<<"-", "i">>, <<"-", "c">>, joined>>, TRUE, t.memo,
                        probes \o us.probes \o t.probes, us.logs \cup t.logs)
    ELSE Plan(command[1], Tail(command), FALSE, t.memo,
              probes \o us.probes \o t.probes, us.logs \cup t.logs)

\* resolveCommand, lines 304-312: with the outcome `us` of getUserShell()
resolveWithShell(plat, pv, e, command, us, probes) ==
    shellPlan(command, us, getPlatformType(us.memo, plat, pv, e),
              ~isInteractiveShellCommand(command[1], Tail(command)),
              join(command, <<" ">>), probes)

\* resolveCommand, lines 299-374: the command is routed through the shell
resolveViaShell(memo, plat, pv, e, command, w, probes) ==
    resolveWithShell(plat, pv, e, command, getUserShell(memo, plat, pv, e, w), probes)

\* Mutant: the plan of a command that was found keeps the head among the arguments
directPlan_KeepsHead(memo, command, probes) ==
    Plan(command[1], command, FALSE, memo, probes, {"found-in-path"})

\* The plan of a command that was found: resolveCommand, lines 289-293
directPlan(memo, command, probes) ==
    Plan(command[1], Tail(command), FALSE, memo, probes, {"found-in-path"})

\* resolveCommand, lines 273-374: the command vector is not empty. `which` is
\* what spawnSync of which/where comes back with, <<"throws">> as its status
\* when spawnSync throws.
resolveNonEmpty(memo, plat, pv, e, command, which, w) ==
    LET whichCommand == IF plat = "win32" THEN "where" ELSE "which"
    IN  IF which.status = "0" /\ truthy(which.stdout) /\ truthy(trim(which.stdout))
        THEN directPlan(memo, command, <<whichCommand>>)
        ELSE resolveViaShell(memo, plat, pv, e, command, w, <<whichCommand>>)

\* The error resolveCommand throws
NoCommandProvided(memo, probes, logs) ==
    [ret |-> NoPlan, memo |-> memo, probes |-> probes, logs |-> logs, threw |-> TRUE]

\* Mutant: the shell is looked up before the command vector is checked
resolveCommand_ChecksLate(memo, plat, pv, e, command, which, w) ==
    IF Len(command) = 0
    THEN LET us == getUserShell(memo, plat, pv, e, w)
         IN  NoCommandProvided(us.memo, us.probes, us.logs)
    ELSE resolveNonEmpty(memo, plat, pv, e, command, which, w)

\* ProcessUtils.resolveCommand
resolveCommand(memo, plat, pv, e, command, which, w) ==
    IF Len(command) = 0 THEN NoCommandProvided(memo, <<>>, {})
    ELSE resolveNonEmpty(memo, plat, pv, e, command, which, w)

----------------------------------------------------------------------------
(* The WSL2 launcher (web/src/server/wsl2-launcher.ts): its PID file *)

\* The PID file: absent, there but not readable, or readable with a text
NoPidFile == [state |-> "absent", text |-> <<>>]

PidFileTexts ==
    {<<"1", "2">>, <<"2", "1", "2", "\n">>, <<"1", "2", "a", "b", "c">>, <<"a", "b", "c">>,
     <<>>, <<"-", "1">>, <<"0">>}

PidFileStates ==
    {NoPidFile, [state |-> "unreadable", text |-> <<>>]}
        \cup {[state |-> "readable", text |-> t] : t \in PidFileTexts}

\* The value of a digit character
digitValue(c) == CHOOSE d \in 0..9 : Digits[d + 1] = c

\* parseInt(s, 10) of a trimmed string: an optional sign and the longest run
\* of digits that follows it; NaN when there is no digit there
parseInt(str) ==
    LET neg == Len(str) > 0 /\ str[1] = "-"
        body == IF Len(str) > 0 /\ str[1] \in {"-", "+"} THEN Tail(str) ELSE str
        run == Max({0} \cup {j \in 1..Len(body) :
                                \A i \in 1..j : body[i] \in Range(Digits)})
        value[j \in 0..run] == IF j = 0 THEN 0 ELSE value[j - 1] * 10 + digitValue(body[j])
    IN  IF run = 0 THEN NaN
        ELSE Whole(IF neg THEN 0 - value[run] ELSE value[run])

\* The launcher process: not started, or what startServer came to
\* (op: start, stop or status; running, runningPid: what isServerRunning
\* reported; spawned, wrote: the child and whether the PID file was written;
\* fileBefore: the PID file when the call began; events: what the stop flow
\* did, in order; ioError: isServerRunning caught an error; phase, startTime, timeoutMs, wakeAt, polls, sleeps: the
\* wait of the stop flow that is in progress; gracefulPolls,
\* gracefulSleeps, gracefulElapsed: the graceful wait when it was over)
NoLaunch ==
    [op |-> "none", pc |-> "none", running |-> FALSE, runningPid |-> NaN, spawned |-> NaN,
     wrote |-> FALSE, fileBefore |-> NoPidFile, exitCode |-> -1,
     events |-> <<>>, phase |-> "none", startTime |-> 0, timeoutMs |-> 0, wakeAt |-> 0,
     polls |-> 0, sleeps |-> 0, ioError |-> FALSE,
     gracefulPolls |-> 0, gracefulSleeps |-> 0, gracefulElapsed |-> 0]

\* Mutant: isServerRunning leaves the PID file of a server that is not
\* running where it is
isServerRunning_KeepsStale(memo, plat, pv, e, tbl, file, tasklist, unlinkOk) ==
    IF file.state = "absent"
    THEN [running |-> FALSE, pid |-> NaN, file |-> file, memo |-> memo, threw |-> FALSE]
    ELSE IF file.state = "unreadable"
         THEN [running |-> FALSE, pid |-> NaN, file |-> file, memo |-> memo, threw |-> TRUE]
    ELSE IF isProcessRunning(memo, plat, pv, e, tbl, parseInt(trim(file.text)), tasklist).ret
         THEN [running |-> TRUE, pid |-> parseInt(trim(file.text)), file |-> file,
               memo |-> isProcessRunning(memo, plat, pv, e, tbl,
                                         parseInt(trim(file.text)), tasklist).memo,
               threw |-> FALSE]
    ELSE [running |-> FALSE, pid |-> NaN, file |-> file,
          memo |-> isProcessRunning(memo, plat, pv, e, tbl,
                                    parseInt(trim(file.text)), tasklist).memo,
          threw |-> FALSE]

\* WSL2Launcher.isServerRunning: whether a server is running, its pid, the
\* PID file and the memoized flag afterwards. `tasklist` is what tasklist
\* comes back with if it is run, `unlinkOk` whether unlinkSync succeeds.
isServerRunning(memo, plat, pv, e, tbl, file, tasklist, unlinkOk) ==
    IF file.state = "absent"
    THEN [running |-> FALSE, pid |-> NaN, file |-> file, memo |-> memo, threw |-> FALSE]
    ELSE IF file.state = "unreadable"
         THEN [running |-> FALSE, pid |-> NaN, file |-> file, memo |-> memo, threw |-> TRUE]
    ELSE IF isProcessRunning(memo, plat, pv, e, tbl, parseInt(trim(file.text)), tasklist).ret
         THEN [running |-> TRUE, pid |-> parseInt(trim(file.text)), file |-> file,
               memo |-> isProcessRunning(memo, plat, pv, e, tbl,
                                         parseInt(trim(file.text)), tasklist).memo,
               threw |-> FALSE]
    ELSE [running |-> FALSE, pid |-> NaN,
          file |-> IF unlinkOk THEN NoPidFile ELSE file,
          memo |-> isProcessRunning(memo, plat, pv, e, tbl,
                                    parseInt(trim(file.text)), tasklist).memo,
          threw |-> ~unlinkOk]

\* The pids a spawned server can get: those no process has
FreePids(tbl) == {p \in Pids : tbl[p] = "none"}

\* What spawn() comes back with: a child with a pid, or (the program could
\* not be started) a child without one
SpawnResults(tbl) == {Whole(p) : p \in FreePids(tbl)} \cup {NaN}

\* WSL2Launcher.startServer, lines 289-358: no server is running; `status`
\* is what isServerRunning came back with, `d` the outcome of isWSL2()
startAfterStatus(status, d, background, child) ==
    IF ~d.ret
    THEN /\ launch' = [NoLaunch EXCEPT !.op = "start", !.pc = "exited", !.exitCode = 1,
                                       !.ioError = status.threw,
                                       !.fileBefore = pidFile]
         /\ pidFile' = status.file
         /\ _isWSL2' = d.memo
         /\ procs' = procs
    ELSE /\ launch' = [NoLaunch EXCEPT !.op = "start",
                                       !.pc = IF background THEN "returned" ELSE "foreground",
                                       !.spawned = child,
                                       !.wrote = (child # NaN),
                                       !.ioError = status.threw,
                                       !.fileBefore = pidFile]
         /\ pidFile' = IF child # NaN
                       THEN [state |-> "readable", text |-> numberToString(child)]
                       ELSE status.file
         /\ _isWSL2' = d.memo
         /\ procs' = IF child # NaN THEN [procs EXCEPT ![child.n] = "own"] ELSE procs

\* Mutant: startServer does not look at what isServerRunning found
startWithStatus_Unchecked(status, background, child) ==
    startAfterStatus(status, isWSL2(status.memo, platform, procVersion, env),
                     background, child)

\* WSL2Launcher.startServer, with the outcome `status` of isServerRunning()
startWithStatus(status, background, child) ==
    IF status.running
    THEN /\ launch' = [NoLaunch EXCEPT !.op = "start", !.pc = "returned", !.running = TRUE,
                                       !.runningPid = status.pid,
                                       !.fileBefore = pidFile]
         /\ pidFile' = status.file
         /\ _isWSL2' = status.memo
         /\ procs' = procs
    ELSE startAfterStatus(status, isWSL2(status.memo, platform, procVersion, env),
                          background, child)

\* WSL2Launcher.startServer, in a launcher process that has just started
StartServer ==
    \E background \in BOOLEAN, unlinkOk \in BOOLEAN, child \in SpawnResults(procs) :
      \E tasklist \in TasklistChoices(platform, procs,
                                      IF pidFile.state = "readable"
                                      THEN parseInt(trim(pidFile.text)) ELSE NaN) :
        /\ launch.pc = "none"
        /\ startWithStatus(isServerRunning(_isWSL2, platform, procVersion, env, procs,
                                           pidFile, tasklist, unlinkOk),
                           background, child)
        /\ UNCHANGED <<platform, procVersion, env, now, wait, last>>

\* The 'exit' handler of the foreground launcher, lines 352-357: the server
\* it spawned has exited
ServerExitHandler ==
    /\ launch.pc = "foreground"
    /\ launch.spawned # NaN /\ procs[launch.spawned.n] = "none"
    /\ pidFile' = NoPidFile
    /\ launch' = [launch EXCEPT !.pc = "exited", !.exitCode = 0]
    /\ UNCHANGED <<platform, procVersion, env, procs, now, _isWSL2, wait, last>>

\* WSL2Launcher.showStatus
ShowStatus ==
    \E unlinkOk \in BOOLEAN :
      \E tasklist \in TasklistChoices(platform, procs,
                                      IF pidFile.state = "readable"
                                      THEN parseInt(trim(pidFile.text)) ELSE NaN) :
        LET status == isServerRunning(_isWSL2, platform, procVersion, env, procs,
                                      pidFile, tasklist, unlinkOk)
        IN  /\ launch.pc = "none"
            /\ launch' = [NoLaunch EXCEPT !.op = "status", !.pc = "returned",
                                          !.running = status.running,
                                          !.runningPid = status.pid,
                                          !.ioError = status.threw,
                                          !.fileBefore = pidFile]
            /\ pidFile' = status.file
            /\ _isWSL2' = status.memo
            /\ UNCHANGED <<platform, procVersion, env, procs, now, wait, last>>

\* stopServer, line 235
gracefulTimeoutMs == 5000
\* stopServer, line 241
forceTimeoutMs == 2000
\* WSL2Launcher.waitForProcessExit, line 265
launcherCheckInterval == 100

\* stopServer, lines 248-257: the PID file is removed if it is there and the
\* server is reported stopped; an error of unlinkSync ends the launcher
\* with exit code 1
stopFinish(l, file, memo, tbl, unlinkOk) ==
    /\ launch' = IF file.state # "absent" /\ ~unlinkOk
                 THEN [l EXCEPT !.pc = "exited", !.exitCode = 1,
                                !.events = @ \o <<"unlink-error">>]
                 ELSE [l EXCEPT !.pc = "returned",
                                !.events = @ \o (IF file.state # "absent"
                                                 THEN <<"unlink">> ELSE <<>>)
                                             \o <<"stopped">>]
    /\ pidFile' = IF file.state # "absent" /\ ~unlinkOk THEN file ELSE NoPidFile
    /\ _isWSL2' = memo
    /\ procs' = tbl

\* What the wait of phase `phase` is recorded as when it returns `ret`
waitEvent(phase, ret) ==
    IF phase = "graceful"
    THEN (IF ret THEN "wait5000-true" ELSE "wait5000-false")
    ELSE (IF ret THEN "wait2000-true" ELSE "wait2000-false")

\* WSL2Launcher.waitForProcessExit, lines 268-271: one turn of the loop, at
\* time t within the timeout: the wait returns true when the process is not
\* running, and sleeps one check interval when it is
stopPoll(l, t, file, memo, tbl, tasklist, unlinkOk) ==
    LET r == isProcessRunning(memo, platform, procVersion, env, tbl, l.runningPid, tasklist)
    IN  IF ~r.ret
        THEN stopFinish([l EXCEPT !.polls = @ + 1,
                                  !.events = @ \o <<waitEvent(l.phase, TRUE)>>],
                        file, r.memo, tbl, unlinkOk)
        ELSE /\ launch' = [l EXCEPT !.pc = "sleeping", !.polls = @ + 1, !.sleeps = @ + 1,
                                    !.wakeAt = t + launcherCheckInterval]
             /\ pidFile' = file
             /\ _isWSL2' = r.memo
             /\ procs' = tbl

\* stopServer, line 241: the wait that follows a delivered SIGKILL, from its
\* start or from a sleep, at time t; what it returns is ignored
stopForcedWait(l, t, file, memo, tbl, tasklist, unlinkOk) ==
    IF t - l.startTime < l.timeoutMs
    THEN stopPoll(l, t, file, memo, tbl, tasklist, unlinkOk)
    ELSE stopFinish([l EXCEPT !.events = @ \o <<waitEvent(l.phase, FALSE)>>],
                    file, memo, tbl, unlinkOk)

\* Mutant: the error of a SIGKILL that is not delivered is not caught apart
\* and ends the launcher like any other error of stopServer
stopForce_Uncaught(l, t, file, memo, tbl, tasklist, unlinkOk) ==
    IF processKill(tbl, l.runningPid, "SIGKILL") # "ok"
    THEN /\ launch' = [l EXCEPT !.pc = "exited", !.exitCode = 1,
                                !.events = @ \o <<waitEvent("graceful", FALSE),
                                                  "SIGKILL-error">>,
                                !.gracefulPolls = l.polls, !.gracefulSleeps = l.sleeps,
                                !.gracefulElapsed = t - l.startTime]
         /\ pidFile' = file
         /\ _isWSL2' = memo
         /\ procs' = tbl
    ELSE stopForcedWait([l EXCEPT !.phase = "forced", !.startTime = t,
                                  !.timeoutMs = forceTimeoutMs,
                                  !.polls = 0, !.sleeps = 0,
                                  !.gracefulPolls = l.polls, !.gracefulSleeps = l.sleeps,
                                  !.gracefulElapsed = t - l.startTime,
                                  !.events = @ \o <<waitEvent("graceful", FALSE),
                                                    "SIGKILL">>],
                        t, file, memo, tbl, tasklist, unlinkOk)

\* stopServer, lines 237-245: the graceful wait returned false at time t;
\* SIGKILL is sent, and waited on if it was delivered; its error is caught
stopForce(l, t, file, memo, tbl, tasklist, unlinkOk) ==
    IF processKill(tbl, l.runningPid, "SIGKILL") # "ok"
    THEN stopFinish([l EXCEPT !.events = @ \o <<waitEvent("graceful", FALSE),
                                                "SIGKILL-error">>,
                              !.gracefulPolls = l.polls, !.gracefulSleeps = l.sleeps,
                              !.gracefulElapsed = t - l.startTime],
                    file, memo, tbl, unlinkOk)
    ELSE stopForcedWait([l EXCEPT !.phase = "forced", !.startTime = t,
                                  !.timeoutMs = forceTimeoutMs,
                                  !.polls = 0, !.sleeps = 0,
                                  !.gracefulPolls = l.polls, !.gracefulSleeps = l.sleeps,
                                  !.gracefulElapsed = t - l.startTime,
                                  !.events = @ \o <<waitEvent("graceful", FALSE),
                                                    "SIGKILL">>],
                        t, file, memo, tbl, tasklist, unlinkOk)

\* Mutant: SIGKILL is sent without waiting for the graceful shutdown
stopGracefulWait_Impatient(l, t, file, memo, tbl, tasklist, unlinkOk) ==
    stopForce(l, t, file, memo, tbl, tasklist, unlinkOk)

\* stopServer, lines 235-237: the wait that follows SIGTERM, from its start
\* or from a sleep, at time t
stopGracefulWait(l, t, file, memo, tbl, tasklist, unlinkOk) ==
    IF t - l.startTime < l.timeoutMs
    THEN stopPoll(l, t, file, memo, tbl, tasklist, unlinkOk)
    ELSE stopForce(l, t, file, memo, tbl, tasklist, unlinkOk)

\* stopServer, lines 229-246, with the outcome `status` of isServerRunning()
\* that reported a running server
stopRunning(l, status, t, tasklist, unlinkOk) ==
    IF isFalsy(status.pid)
    THEN stopFinish(l, status.file, status.memo, procs, unlinkOk)
    ELSE IF processKill(procs, status.pid, "SIGTERM") # "ok"
    THEN /\ launch' = [l EXCEPT !.pc = "exited", !.exitCode = 1,
                                !.events = @ \o <<"SIGTERM-error">>]
         /\ pidFile' = status.file
         /\ _isWSL2' = status.memo
         /\ procs' = procs
    ELSE stopGracefulWait([l EXCEPT !.phase = "graceful", !.startTime = t,
                                    !.timeoutMs = gracefulTimeoutMs,
                                    !.events = @ \o <<"SIGTERM">>],
                          t, status.file, status.memo, procs, tasklist, unlinkOk)

\* WSL2Launcher.stopServer, with the outcome `status` of isServerRunning()
stopWithStatus(status, t, tasklist, unlinkOk) ==
    IF ~status.running
    THEN /\ launch' = [NoLaunch EXCEPT !.op = "stop", !.pc = "returned",
                                       !.ioError = status.threw,
                                       !.fileBefore = pidFile,
                                       !.events = <<"not-running">>]
         /\ pidFile' = status.file
         /\ _isWSL2' = status.memo
         /\ procs' = procs
    ELSE stopRunning([NoLaunch EXCEPT !.op = "stop", !.running = TRUE,
                                      !.runningPid = status.pid,
                                      !.fileBefore = pidFile],
                     status, t, tasklist, unlinkOk)

\* WSL2Launcher.stopServer, in a launcher process that has just started: up
\* to its first await, or its end
StopServer ==
    \E unlinkOk \in BOOLEAN :
      \E tasklist \in TasklistChoices(platform, procs,
                                      IF pidFile.state = "readable"
                                      THEN parseInt(trim(pidFile.text)) ELSE NaN),
         tasklist2 \in TasklistChoices(platform, procs,
                                       IF pidFile.state = "readable"
                                       THEN parseInt(trim(pidFile.text)) ELSE NaN) :
        /\ launch.pc = "none"
        /\ stopWithStatus(isServerRunning(_isWSL2, platform, procVersion, env, procs,
                                          pidFile, tasklist, unlinkOk),
                          now, tasklist2, unlinkOk)
        /\ UNCHANGED <<platform, procVersion, env, now, wait, last>>

\* The timer of the sleep in WSL2Launcher.waitForProcessExit fires, line
\* 271, when the check interval has passed: the loop goes on from its condition, and stopServer with it, up to
\* the next await or the end
StopTimerFires ==
    \E unlinkOk \in BOOLEAN :
      \E tasklist \in TasklistChoices(platform, procs, launch.runningPid) :
        /\ launch.op = "stop" /\ launch.pc = "sleeping"
        /\ now' = launch.wakeAt
        /\ IF launch.phase = "graceful"
           THEN stopGracefulWait(launch, launch.wakeAt, pidFile, _isWSL2, procs,
                                 tasklist, unlinkOk)
           ELSE stopForcedWait(launch, launch.wakeAt, pidFile, _isWSL2, procs,
                               tasklist, unlinkOk)
        /\ UNCHANGED <<platform, procVersion, env, wait, last>>

\* The PID file is removed by someone else while stopServer sleeps: the
\* exit handler of the launcher that runs the server in the foreground
PidFileRemoved ==
    /\ launch.op = "stop" /\ launch.pc = "sleeping"
    /\ pidFile # NoPidFile
    /\ pidFile' = NoPidFile
    /\ UNCHANGED <<platform, procVersion, env, procs, now, _isWSL2, wait, last, launch>>

\* The launcher process is over and another one is started: a new process
\* has nothing memoized
NewLauncherProcess ==
    /\ launch.pc \in {"returned", "exited"}
    /\ launch' = NoLaunch
    /\ _isWSL2' = "null"
    /\ now' = 0
    /\ UNCHANGED <<platform, procVersion, env, procs, wait, last, pidFile>>

\* The PID file is written, removed or made unreadable by someone else
ChangePidFile ==
    \E f \in PidFileStates :
        /\ launch.pc = "none"
        /\ f # pidFile
        /\ pidFile' = f
        /\ UNCHANGED <<platform, procVersion, env, procs, now, _isWSL2, wait, last, launch>>

----------------------------------------------------------------------------
(* Calls *)

\* A JavaScript boolean as recorded in `last`
Bool(b) == IF b THEN "true" ELSE "false"

NoShellWorld ==
    [pwsh |-> "null", powershell |-> "null", gitBash |-> {}, userInfo |-> Undefined,
     executable |-> {}]

NoWhich == [status |-> "", stdout |-> <<>>]

NoArg == [pid |-> Whole(0), signal |-> "", timeoutMs |-> 0, command |-> <<>>,
          which |-> NoWhich, tasklist |-> NoWhich, taskkill |-> "",
          world |-> NoShellWorld]

\* What a finished waitForProcessExit is recorded with: the sleeps and the
\* liveness checks it made, the time it took, and (not known to the program)
\* the time after the call at which the process was first gone, -1 if it
\* never was
NoNote == [sleeps |-> 0, polls |-> 0, elapsed |-> 0, goneAt |-> -1]

\* The record of a call: what was asked, what came back (ret for booleans and
\* platform types, plan for resolveCommand), whether it threw, the probes it
\* made, the lines it logged, and the memoized flag it found.
Call(op, arg, ret, o) ==
    [op |-> op, arg |-> arg, ret |-> ret, plan |-> NoPlan, threw |-> o.threw,
     probes |-> o.probes, logs |-> o.logs, memoBefore |-> _isWSL2, note |-> NoNote]

NoCall ==
    [op |-> "none", arg |-> NoArg, ret |-> "", plan |-> NoPlan, threw |-> FALSE,
     probes |-> <<>>, logs |-> {}, memoBefore |-> "null", note |-> NoNote]

Idle == [pc |-> "idle", pid |-> Whole(0), timeoutMs |-> 0, startTime |-> 0, wakeAt |-> 0,
         sleeps |-> 0, polls |-> 0, goneAt |-> -1]

\* The caller makes one call at a time, and takes the result of a call
\* (TakeResult) before it makes the next.
Ready == last.op = "none" /\ wait.pc = "idle"

TakeResult ==
    /\ last.op # "none" /\ last.ret # "pending"
    /\ last' = NoCall
    /\ UNCHANGED <<pidFile, launch, platform, procVersion, env, procs, now, _isWSL2, wait>>

CallIsWSL2 ==
    LET o == isWSL2(_isWSL2, platform, procVersion, env)
    IN  /\ Ready
        /\ _isWSL2' = o.memo
        /\ last' = Call("isWSL2", NoArg, Bool(o.ret), o)
        /\ UNCHANGED <<pidFile, launch, platform, procVersion, env, procs, now, wait>>

CallGetPlatformType ==
    LET o == getPlatformType(_isWSL2, platform, procVersion, env)
    IN  /\ Ready
        /\ _isWSL2' = o.memo
        /\ last' = Call("getPlatformType", NoArg, o.ret, o)
        /\ UNCHANGED <<pidFile, launch, platform, procVersion, env, procs, now, wait>>

\* /proc/version is rewritten, removed or made unreadable between calls
ChangeProcVersion ==
    /\ platform = "linux"
    /\ \E pv \in ProcVersionStates : procVersion' = pv
    /\ UNCHANGED <<pidFile, launch, platform, env, procs, now, _isWSL2, wait, last>>

\* A WSL indicator variable is set, emptied or deleted between calls
ChangeWslEnv ==
    /\ \E n \in WslEnvNames, v \in WslEnvValues : env' = [env EXCEPT ![n] = v]
    /\ UNCHANGED <<pidFile, launch, platform, procVersion, procs, now, _isWSL2, wait, last>>

\* The numbers callers pass as pids
PidInputs == {NaN, Whole(-1), Half(-1), Whole(0), Half(1)} \cup {Whole(p) : p \in Pids}

CallIsProcessRunning ==
    \E pid \in PidInputs :
      \E tasklist \in TasklistChoices(platform, procs, pid) :
        LET o == isProcessRunning(_isWSL2, platform, procVersion, env, procs, pid, tasklist)
        IN  /\ Ready
            /\ _isWSL2' = o.memo
            /\ last' = Call("isProcessRunning",
                            [NoArg EXCEPT !.pid = pid,
                                          !.tasklist = IF "tasklist" \in Range(o.probes)
                                                       THEN tasklist ELSE NoWhich],
                            Bool(o.ret), o)
            /\ UNCHANGED <<pidFile, launch, platform, procVersion, env, procs, now, wait>>

\* taskkill /F that exits with status 0 has terminated the process; a signal
\* that was delivered leaves the process to exit when it does (ProcessExits)
CallKillProcess ==
    \E pid \in PidInputs, signal \in Signals \ {"0"} :
      \E taskkill \in TaskkillChoices(platform, procs, pid) :
        LET o == killProcess(_isWSL2, platform, procs, pid, signal, taskkill)
        IN  /\ Ready
            /\ last' = Call("killProcess",
                            [NoArg EXCEPT !.pid = pid, !.signal = signal,
                                          !.taskkill = IF "taskkill" \in Range(o.probes)
                                                       THEN taskkill ELSE ""],
                            Bool(o.ret), o)
            /\ procs' = IF platform = "win32" /\ o.ret
                        THEN [procs EXCEPT ![pid.n] = "none"]
                        ELSE procs
            /\ UNCHANGED <<pidFile, launch, platform, procVersion, env, now, _isWSL2, wait>>

\* A process exits, for whatever reason
ProcessExits ==
    \E p \in Pids :
        /\ procs[p] # "none"
        /\ procs' = [procs EXCEPT ![p] = "none"]
        /\ wait' = IF wait.pc # "idle" /\ wait.pid = Whole(p) /\ wait.goneAt = -1
                   THEN [wait EXCEPT !.goneAt = now - wait.startTime]
                   ELSE wait
        /\ UNCHANGED <<pidFile, launch, platform, procVersion, env, now, _isWSL2, last>>

\* Mutant: when the time is up the wait is given up with true
waitLoop_GivesUpTrue(w) ==
    IF now - w.startTime < w.timeoutMs
    THEN \E tasklist \in TasklistChoices(platform, procs, w.pid) :
           LET o == isProcessRunning(_isWSL2, platform, procVersion, env, procs, w.pid, tasklist)
               polled == [w EXCEPT !.polls = @ + 1]
           IN  /\ _isWSL2' = o.memo
               /\ IF ~o.ret
                  THEN /\ wait' = Idle
                       /\ last' = [Call("waitForProcessExit",
                                        [NoArg EXCEPT !.pid = w.pid, !.timeoutMs = w.timeoutMs],
                                        "true", Outcome(TRUE, o.memo, <<>>, {"exited"}))
                                   EXCEPT !.note = [sleeps |-> polled.sleeps, polls |-> polled.polls,
                                                    elapsed |-> now - w.startTime,
                                                    goneAt |-> w.goneAt]]
                  ELSE /\ wait' = [polled EXCEPT !.pc = "sleeping",
                                                 !.wakeAt = now + checkInterval,
                                                 !.sleeps = @ + 1]
                       /\ last' = [Call("waitForProcessExit",
                                        [NoArg EXCEPT !.pid = w.pid, !.timeoutMs = w.timeoutMs],
                                        "pending", Outcome(TRUE, o.memo, <<>>, {}))
                                   EXCEPT !.memoBefore = "null"]
    ELSE /\ wait' = Idle
         /\ last' = [Call("waitForProcessExit",
                          [NoArg EXCEPT !.pid = w.pid, !.timeoutMs = w.timeoutMs],
                          "true", Outcome(TRUE, _isWSL2, <<>>, {"did-not-exit"}))
                     EXCEPT !.note = [sleeps |-> w.sleeps, polls |-> w.polls,
                                      elapsed |-> now - w.startTime, goneAt |-> w.goneAt]]
         /\ UNCHANGED _isWSL2

\* waitForProcessExit, lines 231-241: the loop from its condition to the next
\* await or return, for the wait `w`. While the call is in progress `last`
\* shows it as pending.
waitLoop(w) ==
    IF now - w.startTime < w.timeoutMs
    THEN \E tasklist \in TasklistChoices(platform, procs, w.pid) :
           LET o == isProcessRunning(_isWSL2, platform, procVersion, env, procs, w.pid, tasklist)
               polled == [w EXCEPT !.polls = @ + 1]
           IN  /\ _isWSL2' = o.memo
               /\ IF ~o.ret
                  THEN /\ wait' = Idle
                       /\ last' = [Call("waitForProcessExit",
                                        [NoArg EXCEPT !.pid = w.pid, !.timeoutMs = w.timeoutMs],
                                        "true", Outcome(TRUE, o.memo, <<>>, {"exited"}))
                                   EXCEPT !.note = [sleeps |-> polled.sleeps, polls |-> polled.polls,
                                                    elapsed |-> now - w.startTime,
                                                    goneAt |-> w.goneAt]]
                  ELSE /\ wait' = [polled EXCEPT !.pc = "sleeping",
                                                 !.wakeAt = now + checkInterval,
                                                 !.sleeps = @ + 1]
                       /\ last' = [Call("waitForProcessExit",
                                        [NoArg EXCEPT !.pid = w.pid, !.timeoutMs = w.timeoutMs],
                                        "pending", Outcome(TRUE, o.memo, <<>>, {}))
                                   EXCEPT !.memoBefore = "null"]
    ELSE /\ wait' = Idle
         /\ last' = [Call("waitForProcessExit",
                          [NoArg EXCEPT !.pid = w.pid, !.timeoutMs = w.timeoutMs],
                          "false", Outcome(FALSE, _isWSL2, <<>>, {"did-not-exit"}))
                     EXCEPT !.note = [sleeps |-> w.sleeps, polls |-> w.polls,
                                      elapsed |-> now - w.startTime, goneAt |-> w.goneAt]]
         /\ UNCHANGED _isWSL2

\* The clock runs in steps of TickMs up to MaxTime
TickMs == 50
MaxTime == 400

TimeoutChoices == {0, 50, 100, 250}

\* waitForProcessExit is called: up to its first await, or its return
CallWaitForProcessExit ==
    \E pid \in PidInputs, timeoutMs \in TimeoutChoices :
        /\ Ready
        /\ now + timeoutMs + checkInterval + TickMs <= MaxTime
        /\ waitLoop([Idle EXCEPT !.pc = "loop", !.pid = pid, !.timeoutMs = timeoutMs,
                                 !.startTime = now,
                                 !.goneAt = IF exists(procs, pid) THEN -1 ELSE 0])
        /\ UNCHANGED <<pidFile, launch, platform, procVersion, env, procs, now>>

\* The timer of the sleeping wait fires: the loop goes on
ResumeWaitForProcessExit ==
    /\ wait.pc = "sleeping"
    /\ now >= wait.wakeAt
    /\ waitLoop(wait)
    /\ UNCHANGED <<pidFile, launch, platform, procVersion, env, procs, now>>

\* Time passes while a wait sleeps; a timer that is due fires before more
\* time passes
Tick ==
    /\ wait.pc = "sleeping"
    /\ now < wait.wakeAt
    /\ now + TickMs <= MaxTime
    /\ now' = now + TickMs
    /\ UNCHANGED <<pidFile, launch, platform, procVersion, env, procs, _isWSL2, wait, last>>

\* The command vectors callers pass
Commands ==
    {<<>>,
     <<<<"l", "s">>, <<"-", "l", "a">>>>,
     <<bash>>,
     <<bash, <<"-", "l">>>>,
     <<bash, <<"x", ".", "s", "h">>>>,
     <<binZsh>>,
     <<<<"m", "y", "a", "l", "i", "a", "s">>>>,
     <<<<"r", "e", "b", "a", "s", "h">>>>}

\* What spawnSync of which/where can come back with: the path found, blank
\* output, no output, not found, a timeout, or an exception
WhichResults ==
    {[status |-> "0", stdout |-> <<"/", "b", "i", "n", "/", "x", "\n">>],
     [status |-> "0", stdout |-> <<"\n">>],
     [status |-> "0", stdout |-> <<>>],
     [status |-> "1", stdout |-> <<>>],
     [status |-> "null", stdout |-> <<>>],
     [status |-> "throws", stdout |-> <<>>]}

\* What the shell probes can find on a platform
ShellWorlds(plat) ==
    IF plat = "win32"
    THEN {[NoShellWorld EXCEPT !.pwsh = a, !.powershell = b, !.gitBash = g] :
              a \in {"0", "null"}, b \in {"0", "1"}, g \in {{}, {1}, {3}, {2, 3}}}
    ELSE {[NoShellWorld EXCEPT !.userInfo = u, !.executable = x] :
              u \in {Throws, Undefined, <<>>, binZsh},
              x \in {{}, {binBash}, {binZsh, binBash}, {usrBinZsh, usrBinBash}, {binSh}}}

\* The shell worlds resolveCommand is called in: on Windows pwsh, Windows
\* PowerShell, Git Bash or none of them; elsewhere a shell from
\* os.userInfo(), two executable shells, or nothing
ResolveShellWorlds(plat) ==
    IF plat = "win32"
    THEN {[NoShellWorld EXCEPT !.pwsh = "0"],
          [NoShellWorld EXCEPT !.powershell = "0"],
          [NoShellWorld EXCEPT !.powershell = "1", !.gitBash = {1}],
          [NoShellWorld EXCEPT !.powershell = "1"]}
    ELSE {[NoShellWorld EXCEPT !.userInfo = binZsh],
          [NoShellWorld EXCEPT !.executable = {binZsh, binBash}],
          [NoShellWorld EXCEPT !.userInfo = Throws]}

CallResolveCommand ==
    \E command \in Commands, which \in WhichResults, w \in ResolveShellWorlds(platform) :
        LET o == resolveCommand(_isWSL2, platform, procVersion, env, command, which, w)
        IN  /\ Ready
            /\ _isWSL2' = o.memo
            /\ last' = [Call("resolveCommand", [NoArg EXCEPT !.command = command, !.which = which,
                                           !.world = IF {"pwsh", "userInfo"}
                                                            \cap Range(o.probes) # {}
                                                        THEN w ELSE NoShellWorld],
                             "", o)
                        EXCEPT !.plan = o.ret, !.threw = o.threw]
            /\ UNCHANGED <<pidFile, launch, platform, procVersion, env, procs, now, wait>>

CallGetUserShell ==
    \E w \in ShellWorlds(platform) :
        LET o == getUserShell(_isWSL2, platform, procVersion, env, w)
        IN  /\ Ready
            /\ _isWSL2' = o.memo
            /\ last' = [Call("getUserShell", [NoArg EXCEPT !.world = w], "", o)
                        EXCEPT !.plan = [NoPlan EXCEPT !.command = o.ret]]
            /\ UNCHANGED <<pidFile, launch, platform, procVersion, env, procs, now, wait>>

\* The values SHELL takes
ShellValues == {Undefined, <<>>, binBash, <<"/", "u", "s", "r", "/", "b", "i", "n", "/", "f", "i", "s", "h">>, <<"p", "w", "s", "h", ".", "e", "x", "e">>}

\* SHELL is set, emptied or deleted between calls
ChangeShellEnv ==
    /\ \E v \in ShellValues : env' = [env EXCEPT !["SHELL"] = v]
    /\ UNCHANGED <<pidFile, launch, platform, procVersion, procs, now, _isWSL2, wait, last>>

----------------------------------------------------------------------------
(* Platform detection: every platform, every /proc/version, every setting  *)
(* of the WSL variables, changing between calls.                           *)

InitDetect ==
    /\ platform \in Platforms
    /\ procVersion \in ProcVersionStates
    /\ platform # "linux" => procVersion.state = "absent"
    /\ \E f \in [WslEnvNames -> WslEnvValues] :
           env = [n \in EnvNames |-> IF n \in WslEnvNames THEN f[n] ELSE Undefined]
    /\ procs = [p \in Pids |-> "none"]
    /\ now = 0
    /\ _isWSL2 = "null"
    /\ wait = Idle
    /\ last = NoCall
    /\ pidFile = NoPidFile
    /\ launch = NoLaunch

NextDetect ==
    \/ TakeResult
    \/ CallIsWSL2
    \/ CallGetPlatformType
    \/ ChangeProcVersion
    \/ ChangeWslEnv

SpecDetect == InitDetect /\ [][NextDetect]_vars

\* A call of one of the operations `ops` is made in this step
Called(ops) == last' # last /\ last'.op \in ops

\* The call `c` made one of the probes `ps`
Probed(c, ps) == \E i \in 1..Len(c.probes) : c.probes[i] \in ps

DetectOps == {"isWSL2", "getPlatformType"}
DetectionProbes == {"existsSync", "readFileSync", "env"}

\* What a detection call returns when the flag holds `memo`
MemoizedRet(op, memo) ==
    IF op = "isWSL2" THEN memo
    ELSE IF memo = "true" THEN "wsl2" ELSE platform

\* The /proc/version texts that carry the vendor marker (microsoft or wsl,
\* in any letter case) and those that carry the version marker (wsl2)
VendorMarked == {WSL2Text, WSL1Text, CustomWSL2Text, WslOnlyText}
VersionMarked == {WSL2Text, CustomWSL2Text}

\* C1: once isWSL2 or getPlatformType has returned, the memoized flag is
\* never written again, and every later call returns the value the flag
\* stands for without looking at /proc/version or the environment, whatever
\* became of them in between.
C1_MemoizedForever ==
    [][_isWSL2 # "null" =>
        /\ _isWSL2' = _isWSL2
        /\ Called(DetectOps) =>
              /\ last'.ret = MemoizedRet(last'.op, _isWSL2)
              /\ ~Probed(last', DetectionProbes)
              /\ last'.logs = {}]_vars

\* C1 witness: WSL2 was detected, /proc/version was then removed and the
\* WSL variables cleared, and a later call still answers WSL2 without probing
C1_Witness ==
    /\ last.op = "getPlatformType" /\ last.memoBefore = "true"
    /\ last.ret = "wsl2" /\ ~Probed(last, DetectionProbes)
    /\ procVersion.state = "absent"
    /\ \A n \in WslEnvNames : env[n] = Undefined

\* A first detection call on Linux with /proc/version readable is made in this step
FirstDetectionReading ==
    /\ Called(DetectOps) /\ _isWSL2 = "null"
    /\ platform = "linux" /\ procVersion.state = "readable"

\* C8: on Linux with a readable /proc/version the first detection call
\* decides by the two markers: vendor and version marker give WSL2 and the
\* flag true; the vendor marker without the version marker gives plain
\* Linux, the flag false and the WSL1 warning.
C8_MarkerTable ==
    [][FirstDetectionReading =>
        /\ (procVersion.text \in VendorMarked \cap VersionMarked) =>
              /\ last'.ret = MemoizedRet(last'.op, "true")
              /\ _isWSL2' = "true"
        /\ (procVersion.text \in VendorMarked \ VersionMarked) =>
              /\ last'.ret = MemoizedRet(last'.op, "false")
              /\ _isWSL2' = "false"
              /\ "wsl1-unsupported" \in last'.logs]_vars

\* C8 witness: a WSL1 kernel was read by the first call, which warned
C8_Witness ==
    /\ last.op = "getPlatformType" /\ last.memoBefore = "null"
    /\ platform = "linux" /\ procVersion = [state |-> "readable", text |-> WSL1Text]
    /\ last.ret = "linux" /\ "wsl1-unsupported" \in last.logs /\ _isWSL2 = "false"

\* A first detection call on Linux is made in this step, /proc/version is
\* readable and carries no marker
FirstDetectionNoMarker ==
    /\ FirstDetectionReading
    /\ procVersion.text \notin VendorMarked \cup VersionMarked

\* The virtualized answer is given only by a detection that read the
\* version marker on Linux
WSL2OnlyFromVersionMarker ==
    (Called(DetectOps) /\ _isWSL2 = "null" /\ last'.ret = MemoizedRet(last'.op, "true")) =>
        /\ platform = "linux" /\ procVersion.state = "readable"
        /\ procVersion.text \in VersionMarked

PlainLinuxRecorded ==
    /\ last'.ret = MemoizedRet(last'.op, "false")
    /\ _isWSL2' = "false"

\* C9 as stated: with no marker in /proc/version and any WSL variable set
\* (present in the environment), detection answers plain Linux, records
\* false and logs that WSL2 could not be confirmed; WSL2 is answered only on
\* Linux with the version marker read.
C9_AsStated ==
    [][/\ (FirstDetectionNoMarker /\ \E n \in WslEnvNames : env[n] # Undefined) =>
              PlainLinuxRecorded /\ "cannot-confirm-wsl2" \in last'.logs
       /\ WSL2OnlyFromVersionMarker]_vars

\* C9 amended: the same, for a WSL variable set to a non-empty value (a
\* variable set to the empty string does not count as set).
C9_EnvNeverConfirms ==
    [][/\ (FirstDetectionNoMarker /\ \E n \in WslEnvNames : env[n] \notin {Undefined, <<>>}) =>
              PlainLinuxRecorded /\ "cannot-confirm-wsl2" \in last'.logs
       /\ WSL2OnlyFromVersionMarker]_vars

\* C9 witness: all three WSL variables are set, /proc/version is a plain
\* Linux kernel, and the first call answered plain Linux with the warning
C9_Witness ==
    /\ last.op = "isWSL2" /\ last.memoBefore = "null"
    /\ platform = "linux" /\ procVersion = [state |-> "readable", text |-> PlainLinuxText]
    /\ \A n \in WslEnvNames : env[n] = <<"1">>
    /\ last.ret = "false" /\ _isWSL2 = "false" /\ "cannot-confirm-wsl2" \in last.logs

----------------------------------------------------------------------------
(* Processes: liveness checks, termination and the polling wait, on every  *)
(* platform, with processes exiting at any time.                           *)

InitProc ==
    /\ platform \in Platforms
    /\ procVersion \in {[state |-> "absent", text |-> <<>>],
                        [state |-> "readable", text |-> WSL2Text]}
    /\ platform # "linux" => procVersion.state = "absent"
    /\ env = NoEnv
    /\ procs \in [Pids -> ProcStates]
    /\ now = 0
    /\ _isWSL2 = "null"
    /\ wait = Idle
    /\ last = NoCall
    /\ pidFile = NoPidFile
    /\ launch = NoLaunch

NextProc ==
    \/ TakeResult
    \/ CallGetPlatformType
    \/ CallIsProcessRunning
    \/ CallKillProcess
    \/ CallWaitForProcessExit
    \/ ResumeWaitForProcessExit
    \/ Tick
    \/ ProcessExits

SpecProc == InitProc /\ [][NextProc]_vars

----------------------------------------------------------------------------
(* Command resolution: every platform, with and without WSL2, with the     *)
(* shell variable and the Windows variables set or not.                    *)

WindowsEnv ==
    [n \in EnvNames |->
        CASE n = "SystemRoot" -> <<"D", ":", "\\", "W", "i", "n">>
          [] n = "ProgramFiles" -> <<"D", ":", "\\", "A", "p", "p", "s">>
          [] n = "ComSpec" -> <<"C", ":", "\\", "W", "i", "n", "d", "o", "w", "s", "\\", "s", "y", "s", "t", "e", "m", "3", "2", "\\", "c", "m", "d", ".", "e", "x", "e">>
          [] OTHER -> Undefined]

InitResolve ==
    /\ platform \in Platforms
    /\ procVersion \in {[state |-> "absent", text |-> <<>>],
                        [state |-> "readable", text |-> WSL2Text]}
    /\ platform # "linux" => procVersion.state = "absent"
    /\ env \in {NoEnv, WindowsEnv}
    /\ platform # "win32" => env = NoEnv
    /\ procs = [p \in Pids |-> "none"]
    /\ now = 0
    /\ _isWSL2 = "null"
    /\ wait = Idle
    /\ last = NoCall
    /\ pidFile = NoPidFile
    /\ launch = NoLaunch

NextResolve ==
    \/ TakeResult
    \/ CallResolveCommand
    \/ CallGetUserShell
    \/ CallGetPlatformType
    \/ ChangeShellEnv

SpecResolve == InitResolve /\ [][NextResolve]_vars

\* A call of isProcessRunning is made in this step
IsProcessRunningCalled == Called({"isProcessRunning"})

\* How often the call `c` made the probe `p`
ProbeCount(c, p) == Cardinality({i \in 1..Len(c.probes) : c.probes[i] = p})

\* C2: for every pid <= 0 isProcessRunning returns false without any probe:
\* no signal, no tasklist, no platform detection, and the memoized flag is
\* left as it was.
C2_NonPositivePidNoProbe ==
    [][(IsProcessRunningCalled /\ isLeqZero(last'.arg.pid)) =>
        /\ last'.ret = "false"
        /\ last'.probes = <<>>
        /\ last'.logs = {}
        /\ _isWSL2' = _isWSL2]_vars

\* C2 witness: isProcessRunning(-1) on Linux answered false, probed nothing
\* and the flag is still unknown
C2_Witness ==
    /\ last.op = "isProcessRunning" /\ last.arg.pid = Whole(-1)
    /\ platform = "linux" /\ procVersion.state = "readable"
    /\ last.ret = "false" /\ last.probes = <<>> /\ _isWSL2 = "null"

\* What waitForProcessExit returned for a pid that was not running when it
\* was called with a timeout of 0
WaitReturned == last.op = "waitForProcessExit" /\ last.ret # "pending"

\* C3 as stated: waitForProcessExit(pid, 0) for a pid that is already not
\* running returns true, without sleeping
C3_AsStated ==
    (WaitReturned /\ last.arg.timeoutMs = 0 /\ last.note.goneAt = 0) =>
        last.ret = "true" /\ last.note.sleeps = 0

\* C4 as stated: waitForProcessExit returns true if the process exited within
\* timeoutMs of the call, and false otherwise (here for the timeouts above
\* 0; the timeout 0 is the case of C3)
C4_AsStated ==
    (WaitReturned /\ last.arg.timeoutMs > 0) =>
        (last.ret = "true" <=>
            (last.note.goneAt # -1 /\ last.note.goneAt <= last.arg.timeoutMs))

\* C10: off Windows, isProcessRunning(pid) for pid > 0 makes exactly one
\* null-signal delivery attempt and no other liveness probe; success and a
\* permission error give true, no-such-process and any other error give
\* false, and nothing is thrown.
C10_NullSignalDecides ==
    [][(/\ IsProcessRunningCalled
        /\ ~isFalsy(last'.arg.pid) /\ ~isLeqZero(last'.arg.pid)
        /\ platform # "win32") =>
        /\ ProbeCount(last', "kill 0") = 1
        /\ ProbeCount(last', "tasklist") = 0
        /\ ~last'.threw
        /\ LET code == processKill(procs, last'.arg.pid, "0")
           IN  /\ code \in {"ok", "EPERM"} => last'.ret = "true"
               /\ code \notin {"ok", "EPERM"} => last'.ret = "false"]_vars

\* C10 witness: under WSL2 the null signal to a process of another user
\* failed for lack of permission, and isProcessRunning answered true
C10_Witness ==
    /\ last.op = "isProcessRunning" /\ last.arg.pid = Whole(12)
    /\ _isWSL2 = "true" /\ procs[12] = "foreign"
    /\ processKill(procs, last.arg.pid, "0") = "EPERM"
    /\ last.ret = "true" /\ ProbeCount(last, "kill 0") = 1

\* A call of resolveCommand is made in this step
ResolveCommandCalled == Called({"resolveCommand"})

\* The PATH lookup resolved the head: which/where exited with status 0 and
\* output that is not blank
Resolved(which) ==
    /\ which.status = "0"
    /\ \E i \in 1..Len(which.stdout) : which.stdout[i] \notin WhiteSpace

dashI == <<"-", "i">>
dashC == <<"-", "c">>

\* C5: resolveCommand of the empty command vector throws before any probe:
\* no PATH lookup, no shell discovery, no platform detection, and the
\* memoized flag is left as it was.
C5_EmptyVectorThrowsFirst ==
    [][(ResolveCommandCalled /\ last'.arg.command = <<>>) =>
        /\ last'.threw
        /\ last'.logs = {}
        /\ last'.probes = <<>>
        /\ last'.plan = NoPlan
        /\ _isWSL2' = _isWSL2]_vars

\* C5 witness: resolveCommand([]) threw on Linux with SHELL unset and the
\* flag still unknown
C5_Witness ==
    /\ last.op = "resolveCommand" /\ last.arg.command = <<>>
    /\ last.threw /\ last.probes = <<>>
    /\ platform = "linux" /\ ~truthy(env["SHELL"]) /\ _isWSL2 = "null"

\* C6: for a non-empty command vector whose head the PATH lookup resolves,
\* resolveCommand returns {command: head, args: tail, useShell: false} on
\* every platform, and the PATH lookup is the only probe it makes.
C6_FoundRunsDirectly ==
    [][(/\ ResolveCommandCalled
        /\ last'.arg.command # <<>>
        /\ Resolved(last'.arg.which)) =>
        /\ ~last'.threw
        /\ last'.plan = [command |-> Head(last'.arg.command),
                         args |-> Tail(last'.arg.command),
                         useShell |-> FALSE]
        /\ last'.probes = <<IF platform = "win32" THEN "where" ELSE "which">>
        /\ _isWSL2' = _isWSL2]_vars

\* C6 witness: on Windows `ls -la` was found by where and runs directly
C6_Witness ==
    /\ last.op = "resolveCommand" /\ Resolved(last.arg.which)
    /\ platform = "win32"
    /\ last.plan = [command |-> <<"l", "s">>, args |-> <<<<"-", "l", "a">>>>,
                     useShell |-> FALSE]
    /\ last.probes = <<"where">>

\* C7 as stated: resolveCommand(["bash"]) returns a shell-routed plan whose
\* arguments are -i, -c, "bash"
C7_AsStated ==
    [][(ResolveCommandCalled /\ last'.arg.command = <<bash>>) =>
        /\ last'.plan.useShell
        /\ last'.plan.args = <<dashI, dashC, bash>>]_vars

\* C7: when the PATH lookup does not resolve bash, resolveCommand(["bash"])
\* returns a shell-routed plan whose arguments are -i, -c, "bash" on Linux
\* (WSL2 included) and macOS, and on Windows when the user's shell is a
\* bash.
C7_BashAloneIsInteractive ==
    [][(/\ ResolveCommandCalled
        /\ last'.arg.command = <<bash>>
        /\ ~Resolved(last'.arg.which)
        /\ \/ platform \in {"linux", "darwin"}
           \/ platform = "win32" /\ includes(last'.plan.command, bash)) =>
        /\ ~last'.threw
        /\ last'.plan.useShell
        /\ last'.plan.args = <<dashI, dashC, bash>>]_vars

\* C7 witness: on macOS which did not find bash, and the plan is
\* /bin/zsh -i -c bash
C7_Witness ==
    /\ last.op = "resolveCommand" /\ last.arg.command = <<bash>>
    /\ ~Resolved(last.arg.which)
    /\ platform = "darwin"
    /\ last.plan = [command |-> binZsh, args |-> <<dashI, dashC, bash>>,
                     useShell |-> TRUE]

----------------------------------------------------------------------------
(* Claims about the Windows liveness check and about killProcess *)

DigitChars == {Digits[i] : i \in 1..Len(Digits)}

\* The text holds the decimal form of `pid` as a number of its own: at some
\* place, with no digit just before it and none just after it
ExactToken(text, pid) ==
    LET tok == numberToString(pid)
    IN  \E i \in 1..(Len(text) - Len(tok) + 1) :
            /\ SubSeq(text, i, i + Len(tok) - 1) = tok
            /\ i > 1 => text[i - 1] \notin DigitChars
            /\ i + Len(tok) <= Len(text) => text[i + Len(tok)] \notin DigitChars

PositivePid(pid) == ~isFalsy(pid) /\ ~isLeqZero(pid)

\* C11: on Windows, isProcessRunning(pid) for pid > 0 makes one tasklist
\* call; it returns false when tasklist timed out, exited non-zero or printed
\* nothing; and it returns true only when the pid stands in the output as a
\* number of its own (12 is not found in 212).
C11_TasklistExactPid ==
    [][(/\ IsProcessRunningCalled
        /\ PositivePid(last'.arg.pid)
        /\ platform = "win32") =>
        /\ last'.probes = <<"isWSL2", "tasklist">> \/ last'.probes = <<"tasklist">>
        /\ ~last'.threw
        /\ (last'.arg.tasklist.status # "0" \/ last'.arg.tasklist.stdout = <<>>)
               => last'.ret = "false"
        /\ last'.ret = "true" => ExactToken(last'.arg.tasklist.stdout, last'.arg.pid)]_vars

\* C11 witness: asked for pid 12 while only process 212 is listed, the
\* answer is false
C11_Witness ==
    /\ last.op = "isProcessRunning" /\ last.arg.pid = Whole(12)
    /\ platform = "win32"
    /\ last.arg.tasklist.status = "0"
    /\ includes(last.arg.tasklist.stdout, numberToString(Whole(212)))
    /\ ~ExactToken(last.arg.tasklist.stdout, Whole(12))
    /\ last.ret = "false"

\* A call of killProcess is made in this step
KillProcessCalled == Called({"killProcess"})

\* C12: killProcess returns whether the request was delivered: off Windows
\* true iff process.kill raised nothing, on Windows true iff taskkill exited
\* with status 0; for pid <= 0 it returns false and makes no delivery
\* attempt at all.
C12_KillReportsDelivery ==
    [][KillProcessCalled =>
        /\ ~last'.threw
        /\ _isWSL2' = _isWSL2
        /\ isLeqZero(last'.arg.pid) =>
               last'.ret = "false" /\ last'.probes = <<>> /\ procs' = procs
        /\ (PositivePid(last'.arg.pid) /\ platform # "win32") =>
               /\ last'.probes = <<killProbe(last'.arg.signal)>>
               /\ last'.ret = "true"
                      <=> processKill(procs, last'.arg.pid, last'.arg.signal) = "ok"
        /\ (PositivePid(last'.arg.pid) /\ platform = "win32") =>
               /\ last'.probes = <<"taskkill">>
               /\ last'.ret = "true" <=> last'.arg.taskkill = "0"]_vars

\* C12 witness: on Linux SIGTERM was delivered to process 12, killProcess
\* answered true, and the process is still there
C12_Witness ==
    /\ last.op = "killProcess" /\ last.arg.pid = Whole(12) /\ last.arg.signal = "SIGTERM"
    /\ platform = "linux" /\ last.ret = "true" /\ procs[12] = "own"

----------------------------------------------------------------------------
(* Every operation, with every outcome of its probes: which calls throw.   *)

InitErrors ==
    /\ platform \in Platforms
    /\ procVersion \in {[state |-> "absent", text |-> <<>>],
                        [state |-> "unreadable", text |-> <<>>],
                        [state |-> "readable", text |-> WSL2Text]}
    /\ platform # "linux" => procVersion.state = "absent"
    /\ env = IF platform = "win32" THEN WindowsEnv ELSE NoEnv
    /\ procs \in {[p \in Pids |-> IF p = 12 THEN a ELSE "none"] : a \in ProcStates}
    /\ now = 0
    /\ _isWSL2 = "null"
    /\ wait = Idle
    /\ last = NoCall
    /\ pidFile = NoPidFile
    /\ launch = NoLaunch

NextErrors ==
    \/ TakeResult
    \/ CallIsWSL2
    \/ CallGetPlatformType
    \/ CallIsProcessRunning
    \/ CallKillProcess
    \/ CallWaitForProcessExit
    \/ ResumeWaitForProcessExit
    \/ Tick
    \/ ProcessExits
    \/ CallResolveCommand
    \/ CallGetUserShell

SpecErrors == InitErrors /\ [][NextErrors]_vars

AllOps ==
    {"isWSL2", "getPlatformType", "isProcessRunning", "killProcess", "waitForProcessExit",
     "getUserShell", "resolveCommand"}

\* C13: of all the calls of ProcessUtils only resolveCommand of the empty
\* vector throws; every other call returns a value whatever its probes come
\* back with, and a first detection whose read of /proc/version throws
\* answers not-WSL2 and records it.
C13_OnlyEmptyVectorThrows ==
    [][Called(AllOps) =>
        /\ last'.threw <=> (last'.op = "resolveCommand" /\ last'.arg.command = <<>>)
        /\ ~last'.threw => (last'.ret # "" \/ last'.plan.command # <<>>)
        /\ (/\ last'.op \in DetectOps /\ _isWSL2 = "null"
            /\ platform = "linux" /\ procVersion.state = "unreadable") =>
               /\ last'.ret = MemoizedRet(last'.op, "false")
               /\ _isWSL2' = "false"]_vars

\* C13 witness: reading /proc/version threw in the first isWSL2 call, which
\* logged the failure and answered false
C13_Witness ==
    /\ last.op = "isWSL2" /\ last.memoBefore = "null"
    /\ platform = "linux" /\ procVersion.state = "unreadable"
    /\ ~last.threw /\ last.ret = "false" /\ "detect-failed" \in last.logs

----------------------------------------------------------------------------
(* Claims about getUserShell and the shape of the shell invocation *)

\* A call of getUserShell is made in this step
GetUserShellCalled == Called({"getUserShell"})

\* What getUserShell returned
ReturnedShell(c) == c.plan.command

fishPath == <<"/", "u", "s", "r", "/", "b", "i", "n", "/", "f", "i", "s", "h">>

\* C14: when SHELL is set to a non-empty value getUserShell returns it, on
\* every platform, and does nothing else: no shell is probed, the current
\* user is not looked up, and the platform is not detected.
C14_ShellVariableWins ==
    [][(GetUserShellCalled /\ env["SHELL"] \notin {Undefined, <<>>}) =>
        /\ ReturnedShell(last') = env["SHELL"]
        /\ last'.probes = <<>>
        /\ last'.logs = {}
        /\ ~last'.threw
        /\ _isWSL2' = _isWSL2]_vars

\* C14 witness: on Windows with SHELL=/usr/bin/fish getUserShell answered
\* /usr/bin/fish, and the platform is still undetected
C14_Witness ==
    /\ last.op = "getUserShell" /\ platform = "win32"
    /\ env["SHELL"] = fishPath /\ ReturnedShell(last) = fishPath
    /\ last.probes = <<>> /\ _isWSL2 = "null"

\* The first element of `list` that is in `good`
FirstGood(list, good) == list[Min({i \in 1..Len(list) : list[i] \in good})]

BashFirst == <<binBash, binZsh, usrBinBash, usrBinZsh, binSh>>
ZshFirst == <<binZsh, binBash, usrBinZsh, usrBinBash, binSh>>

\* The shell the ordered search of C15 ends with, for what the probes find
\* (`w`) and the platform type being WSL2 or not
SearchedShell(w, underWSL2) ==
    LET list == IF underWSL2 THEN BashFirst ELSE ZshFirst
    IN  IF w.userInfo \notin {Throws, Undefined, <<>>} THEN w.userInfo
        ELSE IF \E i \in 1..Len(list) : list[i] \in w.executable
             THEN FirstGood(list, w.executable)
        ELSE binSh

\* C15: on Linux, WSL2 and macOS with SHELL not set, getUserShell returns
\* the shell of os.userInfo() if it has one; else the first path of the list
\* that `test -x` accepts, the list being bash-first under WSL2 and
\* zsh-first otherwise; else /bin/sh. A listed path that the probe does not
\* accept is not returned, /bin/sh as the last resort apart.
C15_UnixShellSearch ==
    [][(/\ GetUserShellCalled
        /\ env["SHELL"] \in {Undefined, <<>>}
        /\ platform \in {"linux", "darwin"}) =>
        /\ ReturnedShell(last') = SearchedShell(last'.arg.world, _isWSL2' = "true")
        /\ (/\ last'.arg.world.userInfo \in {Throws, Undefined, <<>>}
            /\ ReturnedShell(last') # binSh) =>
               ReturnedShell(last') \in last'.arg.world.executable]_vars

\* C15 witness: under WSL2, with no shell from os.userInfo() and both
\* /bin/zsh and /bin/bash executable, getUserShell answered /bin/bash
C15_Witness ==
    /\ last.op = "getUserShell" /\ _isWSL2 = "true"
    /\ ~truthy(env["SHELL"])
    /\ last.arg.world.userInfo = Undefined
    /\ last.arg.world.executable = {binZsh, binBash}
    /\ ReturnedShell(last) = binBash

----------------------------------------------------------------------------
(* The launcher: startServer on every platform and with every PID file *)

InitLaunch ==
    /\ platform \in Platforms
    /\ procVersion \in {[state |-> "absent", text |-> <<>>],
                        [state |-> "readable", text |-> WSL2Text],
                        [state |-> "readable", text |-> WSL1Text],
                        [state |-> "readable", text |-> PlainLinuxText]}
    /\ platform # "linux" => procVersion.state = "absent"
    /\ env = NoEnv
    /\ procs \in [Pids -> ProcStates]
    /\ now = 0
    /\ _isWSL2 = "null"
    /\ wait = Idle
    /\ last = NoCall
    /\ pidFile \in PidFileStates
    /\ launch = NoLaunch

NextLaunch ==
    \/ StartServer
    \/ ServerExitHandler
    \/ NewLauncherProcess
    \/ ChangePidFile
    \/ ProcessExits

SpecLaunch == InitLaunch /\ [][NextLaunch]_vars

\* The launcher's stop, status and start commands, with the timers of the
\* stop flow firing
InitStop ==
    /\ platform \in {"linux", "win32"}
    /\ procVersion = IF platform = "linux"
                     THEN [state |-> "readable", text |-> WSL2Text]
                     ELSE [state |-> "absent", text |-> <<>>]
    /\ env = NoEnv
    /\ procs \in [Pids -> ProcStates]
    /\ now = 0
    /\ _isWSL2 = "null"
    /\ wait = Idle
    /\ last = NoCall
    /\ pidFile \in PidFileStates
    /\ launch = NoLaunch

NextStop ==
    \/ StopServer
    \/ StopTimerFires
    \/ ShowStatus
    \/ StartServer
    \/ ServerExitHandler
    \/ PidFileRemoved
    \/ ProcessExits
    \/ NewLauncherProcess

SpecStop ==
    /\ InitStop /\ [][NextStop]_vars
    /\ WF_vars(StopTimerFires)

\* startServer runs in this step
StartServerRuns == launch.pc = "none" /\ launch'.pc # "none"

\* Detection confirms WSL2: Linux, and /proc/version read with both markers
WSL2Confirmed ==
    /\ platform = "linux" /\ procVersion.state = "readable"
    /\ procVersion.text \in VendorMarked \cap VersionMarked

\* The PID file names a process that is there
NamesLiveProcess ==
    /\ pidFile.state = "readable"
    /\ exists(procs, parseInt(trim(pidFile.text)))

\* startServer spawned a server, or wrote the PID file
Spawned == launch'.spawned # NaN \/ launch'.wrote \/ procs' # procs

\* startServer ended the launcher with an error and spawned nothing
ExitedWithError == launch'.pc = "exited" /\ launch'.exitCode = 1 /\ ~Spawned

\* startServer returned without spawning and left the PID file as it was
ReturnedAlreadyRunning ==
    /\ launch'.pc = "returned" /\ launch'.running /\ ~Spawned
    /\ pidFile' = pidFile

----------------------------------------------------------------------------
(* The polling wait under fair scheduling: timers fire and time passes *)

SpecProcFair ==
    /\ InitProc /\ [][NextProc]_vars
    /\ WF_vars(Tick)
    /\ WF_vars(ResumeWaitForProcessExit)

\* C17: a waitForProcessExit call that is sleeping comes to its return; it
\* sleeps one check interval after every liveness check that saw the
\* process running; it returns true only at a check that saw the process
\* not running (one more check than sleeps); it returns false only with the
\* timeout used up and every check followed by a sleep.
C17_WaitPollsAndTerminates ==
    /\ [](WaitReturned =>
            /\ last.note.elapsed >= last.note.sleeps * checkInterval
            /\ last.ret = "true" =>
                   /\ last.note.polls = last.note.sleeps + 1
                   /\ "exited" \in last.logs
            /\ last.ret = "false" =>
                   /\ last.note.elapsed >= last.arg.timeoutMs
                   /\ last.note.polls = last.note.sleeps)
    /\ (wait.pc = "sleeping") ~> (wait.pc = "idle" /\ WaitReturned)

\* C17 witness: a wait of 250 ms that checked three times, slept twice and
\* then saw the process gone
C17_Witness ==
    /\ WaitReturned /\ last.arg.timeoutMs = 250 /\ last.ret = "true"
    /\ last.note.polls = 3 /\ last.note.sleeps = 2 /\ last.note.elapsed = 2 * checkInterval

----------------------------------------------------------------------------
(* Claims about the shell-routed plan *)

\* The words of a command vector with one space between them
RECURSIVE JoinedBySpaces(_)
JoinedBySpaces(command) ==
    IF Len(command) = 1 THEN command[1]
    ELSE command[1] \o <<" ">> \o JoinedBySpaces(Tail(command))

ShellNames ==
    {<<"b", "a", "s", "h">>, <<"z", "s", "h">>, <<"s", "h">>, <<"f", "i", "s", "h">>,
     <<"d", "a", "s", "h">>, <<"k", "s", "h">>, <<"t", "c", "s", "h">>, <<"c", "s", "h">>}

LoginFlags ==
    {<<"-", "i">>, <<"-", "-", "i", "n", "t", "e", "r", "a", "c", "t", "i", "v", "e">>,
     <<"-", "l">>, <<"-", "-", "l", "o", "g", "i", "n">>}

\* The head names a shell: it is a shell name, or a path whose last segment
\* is one
NamesShell(head) ==
    \E name \in ShellNames :
        \/ head = name
        \/ /\ Len(head) > Len(name)
           /\ SubSeq(head, Len(head) - Len(name), Len(head)) = <<"/">> \o name

\* The command vector asks for an interactive shell session
InteractiveSession(command) ==
    /\ NamesShell(Head(command))
    /\ Len(command) = 1 \/ \E i \in 2..Len(command) : command[i] \in LoginFlags

\* resolveCommand is called with a head that the PATH lookup does not resolve
UnresolvedCalled ==
    /\ ResolveCommandCalled
    /\ last'.arg.command # <<>>
    /\ ~Resolved(last'.arg.which)

\* C18: on Linux, WSL2 and macOS, for a head the PATH lookup does not
\* resolve, resolveCommand returns {command: the user's shell, useShell:
\* true} with args [-i, -c, J] if and only if the head names a shell and the
\* tail is empty or holds an interactivity or login flag, and with args
\* [-c, J] otherwise; J is the command vector joined by single spaces.
C18_UnixShellPlan ==
    [][(UnresolvedCalled /\ platform \in {"linux", "darwin"}) =>
        /\ ~last'.threw
        /\ last'.plan.useShell
        /\ last'.plan.command =
               IF env["SHELL"] \notin {Undefined, <<>>} THEN env["SHELL"]
               ELSE SearchedShell(last'.arg.world, _isWSL2' = "true")
        /\ last'.plan.args =
               IF InteractiveSession(last'.arg.command)
               THEN <<dashI, dashC, JoinedBySpaces(last'.arg.command)>>
               ELSE <<dashC, JoinedBySpaces(last'.arg.command)>>]_vars

\* C18 witness: on macOS `bash x.sh` with bash not found is run as
\* /bin/zsh -c "bash x.sh"
C18_Witness ==
    /\ last.op = "resolveCommand" /\ platform = "darwin"
    /\ last.arg.command = <<bash, <<"x", ".", "s", "h">>>>
    /\ ~Resolved(last.arg.which)
    /\ last.plan = [command |-> binZsh,
                     args |-> <<dashC, <<"b", "a", "s", "h", " ", "x", ".", "s", "h">>>>,
                     useShell |-> TRUE]

\* The families of Windows shells, by the name in the shell's path
BashFamily(shell) == includes(shell, <<"b", "a", "s", "h">>)

PowerShellFamily(shell) ==
    /\ ~BashFamily(shell)
    /\ \/ includes(shell, <<"p", "w", "s", "h">>)
       \/ includes(shell, <<"p", "o", "w", "e", "r", "s", "h", "e", "l", "l">>)

\* C19: on Windows, for a head the PATH lookup does not resolve, the plan is
\* routed through the selected shell, with args by its family: bash gets
\* [-c, J] for a command and [-i, -c, J] for an interactive session;
\* PowerShell gets [-NoLogo, -Command, J] either way; cmd.exe (any other
\* shell) gets [/C, J]; J is the command vector joined by single spaces.
C19_WindowsShellPlan ==
    [][(UnresolvedCalled /\ platform = "win32") =>
        /\ ~last'.threw
        /\ last'.plan.useShell
        /\ last'.plan.args =
               IF BashFamily(last'.plan.command)
               THEN IF InteractiveSession(last'.arg.command)
                    THEN <<dashI, dashC, JoinedBySpaces(last'.arg.command)>>
                    ELSE <<dashC, JoinedBySpaces(last'.arg.command)>>
               ELSE IF PowerShellFamily(last'.plan.command)
                    THEN <<<<"-", "N", "o", "L", "o", "g", "o">>,
                           <<"-", "C", "o", "m", "m", "a", "n", "d">>,
                           JoinedBySpaces(last'.arg.command)>>
               ELSE <<<<"/", "C">>, JoinedBySpaces(last'.arg.command)>>]_vars

\* C19 witness: on Windows with Windows PowerShell as the shell, the
\* interactive `bash -l` is run as powershell.exe -NoLogo -Command "bash -l"
C19_Witness ==
    /\ last.op = "resolveCommand" /\ platform = "win32"
    /\ last.arg.command = <<bash, <<"-", "l">>>>
    /\ ~Resolved(last.arg.which)
    /\ last.plan.command = powershellPath(env)
    /\ last.plan.useShell
    /\ last.plan.args = <<<<"-", "N", "o", "L", "o", "g", "o">>,
                           <<"-", "C", "o", "m", "m", "a", "n", "d">>,
                           <<"b", "a", "s", "h", " ", "-", "l">>>>

----------------------------------------------------------------------------
(* Claims about detection without a readable /proc/version *)

\* The first detection of a process on Linux happens in this step
FirstDetectionOnLinux == Called(DetectOps) /\ _isWSL2 = "null" /\ platform = "linux"

\* C20 as stated: on Linux with /proc/version absent, or present but failing
\* to be read, the first detection goes on to the environment check: with a
\* WSL variable set (to a value) it logs that WSL2 could not be confirmed
\* and answers plain Linux.
C20_AsStated ==
    [][(/\ FirstDetectionOnLinux
        /\ procVersion.state \in {"absent", "unreadable"}
        /\ \E n \in WslEnvNames : env[n] \notin {Undefined, <<>>}) =>
        /\ PlainLinuxRecorded
        /\ "cannot-confirm-wsl2" \in last'.logs]_vars

\* C20 amended: with /proc/version absent the first detection goes on to
\* the environment check (the warning with a WSL variable set to a value,
\* no log line otherwise); with /proc/version present but failing to be
\* read the exception is caught, the failure is logged and the environment
\* is not looked at. Plain Linux is answered and recorded in all of these.
C20_AbsentFallsThrough ==
    [][(FirstDetectionOnLinux /\ procVersion.state \in {"absent", "unreadable"}) =>
        /\ PlainLinuxRecorded
        /\ (/\ procVersion.state = "absent"
            /\ \E n \in WslEnvNames : env[n] \notin {Undefined, <<>>}) =>
               /\ "cannot-confirm-wsl2" \in last'.logs
               /\ "detect-failed" \notin last'.logs
        /\ (/\ procVersion.state = "absent"
            /\ \A n \in WslEnvNames : env[n] \in {Undefined, <<>>}) =>
               last'.logs = {}
        /\ procVersion.state = "unreadable" => last'.logs = {"detect-failed"}]_vars

\* C20 witness: with no /proc/version and WSL_DISTRO_NAME set, the first
\* isWSL2 call logged the warning and answered false
C20_Witness ==
    /\ last.op = "isWSL2" /\ last.memoBefore = "null"
    /\ platform = "linux" /\ procVersion.state = "absent"
    /\ env["WSL_DISTRO_NAME"] = <<"1">>
    /\ last.ret = "false" /\ _isWSL2 = "false"
    /\ "cannot-confirm-wsl2" \in last.logs

----------------------------------------------------------------------------
(* The launcher's stop flow *)

\* A stop flow for a server that isServerRunning reported running
StopFlow == launch.op = "stop" /\ launch.running

\* The stop flow is over: stopServer returned, or the launcher exited
StopOver == launch.pc \in {"returned", "exited"}

\* The positions of event e in what the stop flow did
EventAt(e) == {i \in 1..Len(launch.events) : launch.events[i] = e}

\* What the stop flow did comes in the order of the protocol: SIGTERM is
\* the first thing; SIGKILL comes right after a graceful wait that returned
\* false, which took the whole 5000 ms and saw the process running at every
\* poll; a delivered SIGKILL starts a wait of 2000 ms, and nothing but the
\* end of that wait comes after it
StopOrder ==
    StopFlow =>
        /\ launch.events # <<>> => launch.events[1] \in {"SIGTERM", "SIGTERM-error"}
        /\ \A i \in EventAt("SIGKILL") \cup EventAt("SIGKILL-error") :
              /\ i = 3
              /\ launch.events[1] = "SIGTERM"
              /\ launch.events[2] = "wait5000-false"
              /\ launch.gracefulElapsed >= gracefulTimeoutMs
              /\ launch.gracefulPolls > 0
              /\ launch.gracefulPolls = launch.gracefulSleeps
        /\ \A i \in EventAt("wait5000-false") :
              i = 2 /\ Len(launch.events) > 2
                    /\ launch.events[3] \in {"SIGKILL", "SIGKILL-error"}
        /\ \A i \in EventAt("SIGKILL") :
              /\ launch.phase = "forced"
              /\ launch.timeoutMs = forceTimeoutMs
              /\ launch.timeoutMs < gracefulTimeoutMs
              /\ \/ launch.pc = "sleeping" /\ Len(launch.events) = i
                 \/ /\ Len(launch.events) > i
                    /\ launch.events[i + 1] \in {"wait2000-true", "wait2000-false"}
        /\ \A i \in EventAt("wait2000-true") \cup EventAt("wait2000-false") :
              i = 4 /\ launch.events[3] = "SIGKILL"
        /\ EventAt("wait2000-false") # {} => now - launch.startTime >= forceTimeoutMs

\* A stop flow that sleeps is within the budget of the wait it is in
StopWithinBudget ==
    StopFlow /\ launch.pc = "sleeping" =>
        /\ launch.phase \in {"graceful", "forced"}
        /\ launch.timeoutMs = IF launch.phase = "graceful"
                              THEN gracefulTimeoutMs ELSE forceTimeoutMs
        /\ launch.wakeAt - launch.startTime <= launch.timeoutMs

\* C21: in the stop flow for a server reported running, SIGTERM is sent
\* first; SIGKILL is sent only after it and only when the 5000 ms graceful
\* wait returned false, every poll of it having seen the process running; a
\* delivered SIGKILL is followed by a wait of 2000 ms; and a stop flow that
\* waits always comes to its end, whatever the process does
C21_StopEscalatesInOrderAndEnds ==
    /\ [](StopOrder /\ StopWithinBudget)
    /\ (StopFlow /\ launch.pc = "sleeping") ~> (StopFlow /\ StopOver)

\* C21 witness: a stop flow went through the whole escalation, the process
\* still running when the wait after SIGKILL gave up
C21_Witness ==
    /\ StopFlow /\ StopOver
    /\ launch.events[1] = "SIGTERM"
    /\ EventAt("SIGKILL") # {}
    /\ EventAt("wait2000-false") # {}
    /\ exists(procs, launch.runningPid)

\* A stop flow whose SIGTERM was sent without an error
GracefulSent == StopFlow /\ launch.events # <<>> /\ launch.events[1] = "SIGTERM"

\* The last thing the stop flow did
LastEvent == launch.events[Len(launch.events)]

\* The final report: stopServer returned, having reported the server
\* stopped, and there is no PID file
ReportedStopped ==
    /\ launch.pc = "returned"
    /\ LastEvent = "stopped"
    /\ pidFile = NoPidFile

\* Removing the PID file failed: the launcher exited with code 1 without the
\* report, and the PID file is still there
UnlinkFailed ==
    /\ launch.pc = "exited" /\ launch.exitCode = 1
    /\ LastEvent = "unlink-error"
    /\ EventAt("stopped") = {}
    /\ pidFile # NoPidFile

----------------------------------------------------------------------------
(* The launcher's isServerRunning *)

\* A status, stop or start call begins in this step, with its call of
\* isServerRunning
LauncherCalls == launch.pc = "none" /\ launch'.op \in {"status", "stop", "start"}

\* The pid the PID file holds
HeldPid == parseInt(trim(pidFile.text))

\* The PID file is there, can be read and holds the pid of a process that
\* exists (the liveness check of a Unix platform: signal 0 is delivered or
\* refused with EPERM)
HoldsLivePid ==
    /\ pidFile.state = "readable"
    /\ PositivePid(HeldPid)
    /\ exists(procs, HeldPid)

\* The PID file is there and can be read, and on Windows tasklist may list
\* the pid it holds
MayPassTasklist ==
    /\ pidFile.state = "readable"
    /\ PositivePid(HeldPid)
    /\ \E tasklist \in TasklistChoices(platform, procs, HeldPid) :
          isProcessRunningWindows(HeldPid, tasklist)

\* The call has not gone past isServerRunning and what it reports: a status
\* call, a start call that found the server running, or a stop call that
\* waits or failed to send SIGTERM
OnlyChecked ==
    \/ launch'.op = "status"
    \/ launch'.op = "start" /\ launch'.running
    \/ launch'.op = "stop" /\ launch'.pc = "sleeping"
    \/ launch'.op = "stop" /\ launch'.events = <<"SIGTERM-error">>

\* C23: a status, stop or start call finds the server running, with pid P,
\* exactly when the PID file exists and the pid P it holds passes the
\* liveness check, and isServerRunning then leaves the PID file as it is;
\* when the call reports not running and no I/O error was caught, no PID
\* file remains from before the call: there is none, or it is the one a
\* start call has just written for the server it spawned
C23_RunningIffLivePidFile ==
    [][LauncherCalls =>
         /\ launch'.running =>
               /\ pidFile.state = "readable"
               /\ launch'.runningPid = HeldPid
               /\ ~launch'.ioError
               /\ IF platform = "win32" THEN MayPassTasklist ELSE HoldsLivePid
               /\ OnlyChecked => pidFile' = pidFile
         /\ platform # "win32" /\ HoldsLivePid => launch'.running
         /\ ~launch'.running /\ ~launch'.ioError =>
               \/ pidFile' = NoPidFile
               \/ /\ launch'.op = "start" /\ launch'.wrote
                  /\ pidFile' = [state |-> "readable",
                                 text |-> numberToString(launch'.spawned)]
         /\ ~launch'.running /\ launch'.ioError =>
               pidFile.state # "absent"]_vars

\* C23 witness: a status call found a PID file whose content is not a
\* positive pid, removed it and reported the server not running
C23_Witness ==
    /\ launch.op = "status" /\ ~launch.running /\ ~launch.ioError
    /\ launch.fileBefore.state = "readable"
    /\ ~PositivePid(parseInt(trim(launch.fileBefore.text)))
    /\ pidFile = NoPidFile

============================================================================
